---- MODULE Spec2Model ----
(***************************************************************************)
(* NeoGit: project analysis (neogit/ai/project_analyzer.py), README        *)
(* generation (neogit/ai/readme_generator.py), file classification         *)
(* (neogit/utils/file_utils.py), deployment (neogit/github/manager.py),   *)
(* the commands (neogit/cli/main.py) and the configuration menu            *)
(* (neogit/server/server.py).                                              *)
(*                                                                         *)
(* Python strings are TLA+ strings: TLC evaluates Len, SubSeq and \o on    *)
(* them, so startswith, endswith, in, lower, strip and split are computed  *)
(* character by character as Python computes them.  Characters outside     *)
(* ASCII in the source (the icons of the advanced template) are written    *)
(* <U+XXXX>, the code point they encode.                                   *)
(***************************************************************************)
EXTENDS Integers, Sequences, FiniteSets, TLC

VARIABLES
    \* ProjectAnalyzer.analyze
    project_path,           \* what project_path names: "dir", "file" or "missing"
    tree,           \* the project directory: its entries in listing order
    content,        \* what open() and read give for each manifest path
    apc,            \* position of analyze()
    collected,      \* the dependencies list before list(set(...))[:10]
    analysis,       \* the values analyze() has computed so far
    \* READMEGenerator.generate_readme
    info,           \* the ProjectInfo passed to generate_readme
    rtype,          \* the readme_type passed to generate_readme
    selected_provider,
    ai_providers,   \* the providers that have a configuration
    gpc,            \* position of generate_readme()
    via,            \* the branch generate_readme dispatched to
    pre,            \* what the provider's pre-flight check answered
    resp,           \* what the provider's generation call answered
    prompt,         \* the user prompt submitted to the provider, if any
    readme,         \* the value generate_readme returned
    \* READMEGenerator._generate_template_readme, called repeatedly
    passed,         \* the descriptor as it was before the first call
    outputs,        \* what the calls returned, in order
    \* neogit.utils.file_utils
    fn,             \* the function called
    arg,            \* its argument
    fpc,            \* position of the call
    verdict,        \* what it returned
    \* GitHubManager.deploy_project
    remote,         \* the repository on the host, as far as the code sees it
    branch,         \* the branch argument
    readme_path,    \* the readme_path argument, relative to the project
    dpc,            \* position of deploy_project()
    files_to_upload,
    pos,            \* index of the file the upload loop is at
    retries,        \* retries answered for that file so far
    failures,       \* calls that have failed so far
    tree_elements,  \* the binary blobs staged for the commit
    ops,            \* the reads and the host calls made, in order
    console,        \* the notices printed, in order
    outcomes,       \* how the handling of each file ended, in order
    \* the commands run and generate-readme of neogit/cli/main.py
    command,        \* the command invoked
    cpc,            \* position of the command
    settings,       \* what ConfigManager.load_config() returns
    gitignore,      \* the text of <project>/.gitignore, None without the file
    effects,        \* files written and services called by the command, in order
    \* ConfigManager.setup and load_config
    config_file,    \* ~/.github-readme-mcp/config.yaml
    rc_file,        \* the aliases written in the shell's rc file
    heap,           \* the AppConfig objects made so far; a reference is an index
    self_config,    \* ConfigManager.config: a reference, 0 for None
    spc,            \* position of setup() and of the call of load_config after it
    choice,         \* the last choice in the main menu
    current,        \* setup's local current: a reference
    config,         \* setup's local config: a reference
    loaded,         \* the configuration as setup had it before the first edit
    setup_returned, \* the reference setup() returned, 0 before
    load_returned   \* what load_config() returned after setup: a reference,
                    \* 0 before, -1 when it raised

avars == <<project_path, tree, content, apc, collected, analysis>>
gvars == <<info, rtype, selected_provider, ai_providers, gpc, via, pre, resp,
           prompt, readme>>
tvars == <<passed, outputs>>
fvars == <<fn, arg, fpc, verdict>>
dvars == <<remote, branch, readme_path, dpc, files_to_upload, pos, retries, failures,
           tree_elements, ops, console, outcomes>>
rvars == <<command, cpc, settings, gitignore, effects>>
svars == <<config_file, rc_file, heap, self_config, spc, choice, current, config, loaded,
           setup_returned, load_returned>>
vars == <<avars, gvars, tvars, fvars, dvars, rvars, svars>>

\* Python's None, where a string may stand (Optional[str]).
None == "<None>"

\* One backquote (a string literal cannot end at one).
BackTick == SubSeq("`'", 1, 1)

\* Python truthiness of an Optional[str].
Truthy(x) == x # None /\ x # ""

\* The repeated template calls and the file classifier at rest, for the
\* specifications that do not run them.
TemplateIdle == passed = None /\ outputs = <<>>
ClassifierIdle == fn = None /\ arg = None /\ fpc = "idle" /\ verdict = None

\* deploy_project at rest.
DeployIdle ==
    /\ remote = None /\ branch = None /\ readme_path = None /\ dpc = "idle"
    /\ files_to_upload = <<>> /\ pos = 0 /\ retries = 0 /\ failures = 0
    /\ tree_elements = <<>> /\ ops = <<>> /\ console = <<>> /\ outcomes = <<>>

\* No command invoked.
RunIdle ==
    /\ command = None /\ cpc = "idle" /\ settings = None /\ gitignore = None
    /\ effects = <<>>

\* No ConfigManager at work.
SetupIdle ==
    /\ config_file = None /\ rc_file = {} /\ heap = <<>> /\ self_config = 0 /\ spc = "idle"
    /\ choice = None /\ current = 0 /\ config = 0 /\ loaded = None
    /\ setup_returned = 0 /\ load_returned = 0

(***************************************************************************)
(* str methods                                                             *)
(***************************************************************************)
\* s[i] as a one-character string, 1-based.
Char(s, i) == SubSeq(s, i, i)

\* s.startswith(p)
startswith(s, p) == Len(s) >= Len(p) /\ SubSeq(s, 1, Len(p)) = p

\* s.endswith(p)
endswith(s, p) == Len(s) >= Len(p) /\ SubSeq(s, Len(s) - Len(p) + 1, Len(s)) = p

\* s.find(p), 1-based; 0 when p does not occur in s.
find(s, p) ==
    LET hits == {i \in 1..(Len(s) - Len(p) + 1) : SubSeq(s, i, i + Len(p) - 1) = p}
    IN  IF hits = {} THEN 0 ELSE CHOOSE i \in hits : \A j \in hits : i <= j

\* s.rfind(p), 1-based; 0 when p does not occur in s.
rfind(s, p) ==
    LET hits == {i \in 1..(Len(s) - Len(p) + 1) : SubSeq(s, i, i + Len(p) - 1) = p}
    IN  IF hits = {} THEN 0 ELSE CHOOSE i \in hits : \A j \in hits : i >= j

\* p in s
contains(s, p) == \E i \in 1..(Len(s) - Len(p) + 1) : SubSeq(s, i, i + Len(p) - 1) = p

UpperCase == "ABCDEFGHIJKLMNOPQRSTUVWXYZ"
LowerCase == "abcdefghijklmnopqrstuvwxyz"

\* s.lower()
RECURSIVE lower(_)
lower(s) ==
    IF s = "" THEN ""
    ELSE LET c == Char(s, 1)
             k == find(UpperCase, c)
         IN  (IF k = 0 THEN c ELSE Char(LowerCase, k)) \o lower(Tail(s))

Whitespace == {" ", "\t", "\n", "\r", "\f"}

\* s.strip()
RECURSIVE strip(_)
strip(s) ==
    IF s = "" THEN ""
    ELSE IF Char(s, 1) \in Whitespace THEN strip(Tail(s))
    ELSE IF Char(s, Len(s)) \in Whitespace THEN strip(SubSeq(s, 1, Len(s) - 1))
    ELSE s

\* s.split(sep)[0]: the part of s before the first sep, all of s without one.
split_first(s, sep) ==
    LET k == find(s, sep) IN IF k = 0 THEN s ELSE SubSeq(s, 1, k - 1)

\* s.split(sep)
RECURSIVE split(_, _)
split(s, sep) ==
    LET k == find(s, sep)
    IN  IF k = 0 THEN <<s>>
        ELSE <<SubSeq(s, 1, k - 1)>> \o split(SubSeq(s, k + Len(sep), Len(s)), sep)

\* s.replace(old, new), old one character long.
RECURSIVE replace(_, _, _)
replace(s, old, new) ==
    IF s = "" THEN ""
    ELSE (IF Char(s, 1) = old THEN new ELSE Char(s, 1)) \o replace(Tail(s), old, new)

\* sep.join(parts)
RECURSIVE join(_, _)
join(sep, parts) ==
    IF parts = <<>> THEN ""
    ELSE IF Len(parts) = 1 THEN parts[1]
    ELSE parts[1] \o sep \o join(sep, Tail(parts))

\* xs[:n]
Take(xs, n) == SubSeq(xs, 1, IF Len(xs) < n THEN Len(xs) ELSE n)

\* str(b) of a bool
str_bool(b) == IF b THEN "True" ELSE "False"

\* str(xs) of a list of str (names hold no quote or backslash)
str_list(xs) == "[" \o join(", ", [i \in 1..Len(xs) |-> "'" \o xs[i] \o "'"]) \o "]"

\* The elements of a sequence.
Range(xs) == {xs[i] : i \in 1..Len(xs)}

(***************************************************************************)
(* READMEGenerator: the templates                                          *)
(***************************************************************************)
_get_install_command(project_info) ==
    IF project_info.language = "Python" THEN "pip install -r requirements.txt"
    ELSE IF project_info.language = "JavaScript/TypeScript" THEN "npm install"
    ELSE "# Install dependencies based on your project type"

_get_run_command(project_info) ==
    IF project_info.language = "Python" THEN "python main.py"
    ELSE IF project_info.language = "JavaScript/TypeScript" THEN "npm start"
    ELSE "# Run the application based on your project type"

_get_test_command(project_info) ==
    IF project_info.language = "Python" THEN "python -m pytest"
    ELSE IF project_info.language = "JavaScript/TypeScript" THEN "npm test"
    ELSE "# Run tests based on your project type"

\* A variant that gives every language its plain install command; C10 tells
\* it from the code.
_get_dev_install_command_plain(project_info) ==
    _get_install_command(project_info)

_get_dev_install_command(project_info) ==
    IF project_info.language = "Python" THEN "pip install -r requirements-dev.txt"
    ELSE IF project_info.language = "JavaScript/TypeScript" THEN "npm install --include=dev"
    ELSE _get_install_command(project_info)

_get_verify_command(project_info) ==
    IF project_info.has_tests THEN _get_test_command(project_info)
    ELSE _get_run_command(project_info) \o " --version"

_get_configuration_section(project_info) ==
    IF project_info.structure.config_files # <<>> THEN
        "\n" \o
        "The project uses the following configuration files:\n" \o
        join("\n", [i \in 1..Len(project_info.structure.config_files) |->
                        "- " \o BackTick \o project_info.structure.config_files[i] \o BackTick]) \o "\n" \o
        "\n" \o
        "Edit these files to customize the application behavior.\n"
    ELSE
        "\n" \o
        "Configuration can be done through environment variables or by editing the source code.\n"

\* lang_icons.get(project_info.language, <U+2753>) of _advanced_template
lang_icon(project_info) ==
    CASE project_info.language = "Python" -> "<U+1F40D>"
      [] project_info.language = "JavaScript/TypeScript" -> "<U+26A1><U+FE0F>"
      [] project_info.language = "Java" -> "<U+2615>"
      [] project_info.language = "C/C++" -> "<U+1F4BB>"
      [] project_info.language = "Go" -> "<U+1F9A6>"
      [] project_info.language = "Rust" -> "<U+1F980>"
      [] project_info.language = "Ruby" -> "<U+1F48E>"
      [] project_info.language = "PHP" -> "<U+1F418>"
      [] project_info.language = "Unknown" -> "<U+2753>"
      [] OTHER -> "<U+2753>"

\* the local framework of _advanced_template
framework_suffix(project_info) ==
    IF Truthy(project_info.framework) /\ project_info.framework # project_info.language
    THEN " | " \o project_info.framework ELSE ""

\* the local tech_stack of _advanced_template
tech_stack(project_info) ==
    lang_icon(project_info) \o " " \o project_info.language \o framework_suffix(project_info) \o
    (IF project_info.dependencies # <<>>
     THEN " | " \o join(", ", Take(project_info.dependencies, 5)) ELSE "")

\* type_instructions.get(readme_type, type_instructions['advanced']) of _create_ai_prompt
type_instructions(readme_type) ==
    IF readme_type = "simple" THEN
        "Write a concise README.md for this project. " \o
        "Include: project title, a short description, installation steps, basic usage example, and license section. " \o
        "Use clear Markdown formatting and bullet points where appropriate."
    ELSE IF readme_type = "installation" THEN
        "Write a README.md focused on installation and setup. " \o
        "Include: project title, description, prerequisites, detailed installation steps for different platforms (if relevant), configuration instructions, troubleshooting tips, and license. " \o
        "Use step-by-step instructions, code blocks, and highlight common pitfalls."
    ELSE
        "Write a comprehensive, professional README.md for this project. " \o
        "Include the following sections: project title, badges (if relevant), detailed description, key features, architecture overview (with diagram if possible), installation instructions, configuration, usage examples, API reference (if applicable), contribution guidelines, code of conduct, FAQ, and license. " \o
        "Use advanced Markdown formatting, tables, and code blocks where appropriate. " \o
        "Highlight what makes this project unique and provide links to documentation or related resources."

_create_ai_prompt(project_info, readme_type) ==
    "\n" \o
    "Project Name: " \o project_info.name \o "\n" \o
    "Description: " \o project_info.description \o "\n" \o
    "Language: " \o project_info.language \o "\n" \o
    "Framework: " \o (IF Truthy(project_info.framework) THEN project_info.framework ELSE "None") \o "\n" \o
    "Dependencies: " \o join(", ", Take(project_info.dependencies, 5)) \o "\n" \o
    "Has Tests: " \o str_bool(project_info.has_tests) \o "\n" \o
    "Has Documentation: " \o str_bool(project_info.has_docs) \o "\n" \o
    "Has License: " \o str_bool(project_info.has_license) \o "\n" \o
    "\n" \o
    "Project Structure:\n" \o
    "- Source directories: " \o str_list(project_info.structure.src_dirs) \o "\n" \o
    "- Configuration files: " \o str_list(project_info.structure.config_files) \o "\n" \o
    "- Test directories: " \o str_list(project_info.structure.test_dirs) \o "\n" \o
    "\n" \o
    "Key Files: " \o str_list(Take(project_info.files, 10)) \o "\n" \o
    "\n" \o
    "Requirements:\n" \o
    type_instructions(readme_type) \o "\n"

_get_basic_usage(project_info) ==
    "\n" \o
    "# Basic usage\n" \o
    _get_run_command(project_info) \o "\n" \o
    "\n" \o
    "# With options\n" \o
    _get_run_command(project_info) \o " --help\n"

_get_api_reference(project_info) ==
    "\n" \o
    "### Core Functions\n" \o
    "\n" \o
    "- " \o BackTick \o "main()" \o BackTick \o ": Entry point of the application\n" \o
    "- " \o BackTick \o "config()" \o BackTick \o ": Load configuration settings\n" \o
    "- " \o BackTick \o "run()" \o BackTick \o ": Execute the main application logic\n" \o
    "\n" \o
    "For detailed API documentation, please refer to the source code or generated documentation.\n"

\* the local badges of _advanced_template
badges(project_info) ==
    "\n" \o
    "![License](https://img.shields.io/badge/license-MIT-green.svg)\n" \o
    "![Language](https://img.shields.io/badge/language-" \o replace(project_info.language, " ", "%20") \o "-blue.svg)\n"

_simple_template(project_info) ==
    "# " \o project_info.name \o "\n" \o
    "\n" \o
    project_info.description \o "\n" \o
    "\n" \o
    "## Installation\n" \o
    "\n" \o
    BackTick \o BackTick \o BackTick \o "bash\n" \o
    "# Clone the repository\n" \o
    "git clone <repository-url>\n" \o
    "cd " \o project_info.name \o "\n" \o
    "\n" \o
    "# Install dependencies\n" \o
    _get_install_command(project_info) \o "\n" \o
    BackTick \o BackTick \o BackTick \o "\n" \o
    "\n" \o
    "## Usage\n" \o
    "\n" \o
    BackTick \o BackTick \o BackTick \o "bash\n" \o
    "# Run the project\n" \o
    _get_run_command(project_info) \o "\n" \o
    BackTick \o BackTick \o BackTick \o "\n" \o
    "\n" \o
    "## License\n" \o
    "\n" \o
    "This project is licensed under the MIT License.\n"

_installation_template(project_info) ==
    "# " \o project_info.name \o "\n" \o
    "\n" \o
    project_info.description \o "\n" \o
    "\n" \o
    "## Prerequisites\n" \o
    "\n" \o
    "- " \o project_info.language \o "\n" \o
    (IF Truthy(project_info.framework) THEN "- " \o project_info.framework ELSE "") \o "\n" \o
    "\n" \o
    "## Installation\n" \o
    "\n" \o
    "### Step 1: Clone the Repository\n" \o
    "\n" \o
    BackTick \o BackTick \o BackTick \o "bash\n" \o
    "git clone <repository-url>\n" \o
    "cd " \o project_info.name \o "\n" \o
    BackTick \o BackTick \o BackTick \o "\n" \o
    "\n" \o
    "### Step 2: Install Dependencies\n" \o
    "\n" \o
    BackTick \o BackTick \o BackTick \o "bash\n" \o
    _get_install_command(project_info) \o "\n" \o
    BackTick \o BackTick \o BackTick \o "\n" \o
    "\n" \o
    "### Step 3: Configuration\n" \o
    "\n" \o
    _get_configuration_section(project_info) \o "\n" \o
    "\n" \o
    "### Step 4: Verify Installation\n" \o
    "\n" \o
    BackTick \o BackTick \o BackTick \o "bash\n" \o
    _get_verify_command(project_info) \o "\n" \o
    BackTick \o BackTick \o BackTick \o "\n" \o
    "\n" \o
    "## Troubleshooting\n" \o
    "\n" \o
    "### Common Issues\n" \o
    "\n" \o
    "1. **Dependency conflicts**: Try updating your package manager\n" \o
    "2. **Permission errors**: Use " \o BackTick \o "sudo" \o BackTick \o " for system-wide installation\n" \o
    "3. **Path issues**: Ensure the project is in your PATH\n" \o
    "\n" \o
    "### Getting Help\n" \o
    "\n" \o
    "If you encounter issues:\n" \o
    "1. Check the [Issues](link-to-issues) page\n" \o
    "2. Review the documentation\n" \o
    "3. Contact the maintainers\n" \o
    "\n" \o
    "## License\n" \o
    "\n" \o
    "This project is licensed under the MIT License.\n"

_advanced_template(project_info) ==
    "# " \o project_info.name \o "\n" \o
    "\n" \o
    badges(project_info) \o "\n" \o
    "\n" \o
    project_info.description \o "\n" \o
    "\n" \o
    "## <U+1F680> Table of Contents\n" \o
    "- [Features](#features)\n" \o
    "- [Getting Started](#getting-started)\n" \o
    "- [Installation](#installation)\n" \o
    "- [Usage](#usage)\n" \o
    "- [Configuration](#configuration)\n" \o
    "- [Tech Stack](#tech-stack)\n" \o
    "- [Screenshots](#screenshots)\n" \o
    "- [API Reference](#api-reference)\n" \o
    "- [Contributing](#contributing)\n" \o
    "- [Contact](#contact)\n" \o
    "- [License](#license)\n" \o
    "\n" \o
    "## <U+2728> Features\n" \o
    "- **Modern " \o project_info.language \o "**: Built with the latest " \o project_info.language \o " features\n" \o
    (IF Truthy(project_info.framework) THEN "- **" \o project_info.framework \o " Integration**: Leverages " \o project_info.framework \o " for enhanced functionality" ELSE "") \o "\n" \o
    "- **Comprehensive Testing**: " \o (IF project_info.has_tests THEN "Includes unit and integration tests" ELSE "Test coverage planned") \o "\n" \o
    "- **Documentation**: " \o (IF project_info.has_docs THEN "Complete documentation included" ELSE "Documentation in development") \o "\n" \o
    "\n" \o
    "## <U+1F3C1> Getting Started\n" \o
    "\n" \o
    "Follow these steps to get your development environment set up:\n" \o
    "\n" \o
    "1. **Clone the repository**\n" \o
    "   " \o BackTick \o BackTick \o BackTick \o "bash\n" \o
    "   git clone <repository-url>\n" \o
    "   cd " \o project_info.name \o "\n" \o
    "   " \o BackTick \o BackTick \o BackTick \o "\n" \o
    "2. **Install dependencies**\n" \o
    "   " \o BackTick \o BackTick \o BackTick \o "bash\n" \o
    "   " \o _get_install_command(project_info) \o "\n" \o
    "   " \o BackTick \o BackTick \o BackTick \o "\n" \o
    "3. **Run the application**\n" \o
    "   " \o BackTick \o BackTick \o BackTick \o "bash\n" \o
    "   " \o _get_run_command(project_info) \o "\n" \o
    "   " \o BackTick \o BackTick \o BackTick \o "\n" \o
    "\n" \o
    "## <U+2699><U+FE0F> Installation\n" \o
    "\n" \o
    "### Requirements\n" \o
    "- " \o lang_icon(project_info) \o " " \o project_info.language \o " 3.8+" \o (IF Truthy(project_info.framework) THEN " | " \o project_info.framework ELSE "") \o "\n" \o
    "\n" \o
    "### Quick Start\n" \o
    BackTick \o BackTick \o BackTick \o "bash\n" \o
    "# Clone the repository\n" \o
    "git clone <repository-url>\n" \o
    "cd " \o project_info.name \o "\n" \o
    "\n" \o
    "# Install dependencies\n" \o
    _get_install_command(project_info) \o "\n" \o
    "\n" \o
    "# Run the application\n" \o
    _get_run_command(project_info) \o "\n" \o
    BackTick \o BackTick \o BackTick \o "\n" \o
    "\n" \o
    "## <U+1F6E0><U+FE0F> Usage\n" \o
    "\n" \o
    "### Basic Usage\n" \o
    BackTick \o BackTick \o BackTick \o "bash\n" \o
    _get_basic_usage(project_info) \o "\n" \o
    BackTick \o BackTick \o BackTick \o "\n" \o
    "\n" \o
    "### Advanced Configuration\n" \o
    _get_configuration_section(project_info) \o "\n" \o
    "\n" \o
    "## <U+1F9F0> Tech Stack\n" \o
    "- " \o tech_stack(project_info) \o "\n" \o
    "\n" \o
    "## <U+1F4F8> Screenshots\n" \o
    "Add screenshots here:\n" \o
    BackTick \o BackTick \o BackTick \o "\n" \o
    "![Screenshot 1](link-to-screenshot-1)\n" \o
    "![Screenshot 2](link-to-screenshot-2)\n" \o
    BackTick \o BackTick \o BackTick \o "\n" \o
    "\n" \o
    "## <U+1F4DA> API Reference\n" \o
    _get_api_reference(project_info) \o "\n" \o
    "\n" \o
    "## <U+1F91D> Contributing\n" \o
    "We welcome contributions! Please see our [Contributing Guide](CONTRIBUTING.md) for details.\n" \o
    "\n" \o
    "### Development Setup\n" \o
    BackTick \o BackTick \o BackTick \o "bash\n" \o
    "# Clone the repository\n" \o
    "git clone <repository-url>\n" \o
    "cd " \o project_info.name \o "\n" \o
    "\n" \o
    "# Install development dependencies\n" \o
    _get_dev_install_command(project_info) \o "\n" \o
    "\n" \o
    "# Run tests\n" \o
    _get_test_command(project_info) \o "\n" \o
    BackTick \o BackTick \o BackTick \o "\n" \o
    "\n" \o
    "## <U+1F4EC> Contact\n" \o
    "For questions, suggestions, or support, please open an issue or contact the maintainers.\n" \o
    "\n" \o
    "## <U+1F4DD> License\n" \o
    "This project is licensed under the MIT License - see the [LICENSE](LICENSE) file for details.\n"

\* A variant whose default is the simple template; C11 tells it from the code.
_generate_template_readme_simple_default(project_info, readme_type) ==
    IF readme_type = "advanced" THEN _advanced_template(project_info)
    ELSE IF readme_type = "installation" THEN _installation_template(project_info)
    ELSE _simple_template(project_info)

_generate_template_readme(project_info, readme_type) ==
    IF readme_type = "simple" THEN _simple_template(project_info)
    ELSE IF readme_type = "installation" THEN _installation_template(project_info)
    ELSE _advanced_template(project_info)

(***************************************************************************)
(* READMEGenerator: the providers.  A provider is outside the program: a   *)
(* call raises, or answers an object (SDK) or a status and a body (HTTP).  *)
(* A JSON value is [t, d, items, s]: its type, and its pairs (a dict), its *)
(* elements (a list) or its text (a string).                               *)
(***************************************************************************)
JDict(pairs) == [t |-> "dict", d |-> pairs, items |-> <<>>, s |-> ""]
JList(elems) == [t |-> "list", d |-> <<>>, items |-> elems, s |-> ""]
JStr(text) == [t |-> "str", d |-> <<>>, items |-> <<>>, s |-> text]
JNull == [t |-> "null", d |-> <<>>, items |-> <<>>, s |-> ""]
\* a body response.json() cannot parse
JInvalid == [t |-> "invalid", d |-> <<>>, items |-> <<>>, s |-> ""]

\* d.get(key, default) of a dict; AttributeError is the caller's to model.
dict_get(d, key, default) ==
    IF \E i \in 1..Len(d) : d[i][1] = key
    THEN d[CHOOSE i \in 1..Len(d) : d[i][1] = key][2]
    ELSE default

\* str(result) of a parsed JSON value that is neither a dict nor a list with elements
str_json(v) ==
    CASE v.t = "str" -> v.s
      [] v.t = "null" -> "None"
      [] v.t = "list" -> "[]"
      [] OTHER -> "{}"

\* The text a provider generates when it generates one.
GeneratedText == "# my-cool-app\n\nGenerated by the provider.\n"

\* No call was made.
NoResp == [raises |-> FALSE, status |-> 0, body |-> JNull]

\* self.<prov>_client, as __init__ sets it
client(prov) == selected_provider = prov /\ prov \in ai_providers

_generate_openai_readme(project_info, readme_type, p, r) ==
    IF p # "ok" THEN _generate_template_readme(project_info, readme_type)
    ELSE IF r.raises THEN _generate_template_readme(project_info, readme_type)
    \* response.choices[0]: IndexError without a choice
    ELSE IF r.body.items = <<>> THEN _generate_template_readme(project_info, readme_type)
    ELSE r.body.items[1].s

_generate_anthropic_readme(project_info, readme_type, p, r) ==
    IF p # "ok" THEN _generate_template_readme(project_info, readme_type)
    ELSE IF r.raises THEN _generate_template_readme(project_info, readme_type)
    \* response.content[0]: IndexError without a block
    ELSE IF r.body.items = <<>> THEN _generate_template_readme(project_info, readme_type)
    ELSE r.body.items[1].s

_generate_google_readme(project_info, readme_type, p, r) ==
    IF p # "ok" THEN _generate_template_readme(project_info, readme_type)
    ELSE IF r.raises THEN _generate_template_readme(project_info, readme_type)
    \* response.text raises without a candidate
    ELSE IF r.body.items = <<>> THEN _generate_template_readme(project_info, readme_type)
    ELSE r.body.items[1].s

_generate_huggingface_readme(project_info, readme_type, p, r) ==
    IF p # "ok" THEN _generate_template_readme(project_info, readme_type)
    ELSE IF r.raises THEN _generate_template_readme(project_info, readme_type)
    ELSE IF r.status = 200 THEN
        IF r.body.t = "invalid" THEN _generate_template_readme(project_info, readme_type)
        ELSE IF r.body.t = "list" /\ Len(r.body.items) > 0 THEN
            \* result[0].get: AttributeError unless result[0] is a dict
            IF r.body.items[1].t = "dict"
            THEN dict_get(r.body.items[1].d, "generated_text", "")
            ELSE _generate_template_readme(project_info, readme_type)
        ELSE IF r.body.t = "dict" THEN dict_get(r.body.d, "generated_text", "")
        ELSE str_json(r.body)
    ELSE _generate_template_readme(project_info, readme_type)

_generate_ollama_readme(project_info, readme_type, p, r) ==
    IF p # "ok" THEN _generate_template_readme(project_info, readme_type)
    ELSE IF r.raises THEN _generate_template_readme(project_info, readme_type)
    ELSE IF r.status = 200 THEN
        \* result.get: AttributeError unless result is a dict
        IF r.body.t = "dict" THEN dict_get(r.body.d, "response", "")
        ELSE _generate_template_readme(project_info, readme_type)
    ELSE _generate_template_readme(project_info, readme_type)

(***************************************************************************)
(* ProjectAnalyzer.  The project directory is the sequence of its entries  *)
(* [parent, name, dir] in the order the file system lists them; parent is  *)
(* the path of the holding directory relative to the root, "." for the     *)
(* root itself.                                                            *)
(***************************************************************************)
\* self.project_path.name
project_path_name == "my-cool-app"

\* os.path.join(root, name) made relative to the project root
relpath(parent, name) == IF parent = "." THEN name ELSE parent \o "/" \o name

\* The concatenation of a sequence of sequences.
RECURSIVE Flatten(_)
Flatten(xss) == IF xss = <<>> THEN <<>> ELSE Head(xss) \o Flatten(Tail(xss))

\* A variant of the walk that prunes no directory; C3 tells it from the code.
keep_dir_all(d) == TRUE

\* the condition of line 46 on a directory name
keep_dir(d) ==
    ~startswith(d, ".") /\ d \notin {"node_modules", "__pycache__", "venv", ".git"}

\* the condition of line 48 on a file name
keep_file(filename) ==
    /\ ~startswith(filename, ".")
    /\ ~(endswith(filename, ".pyc") \/ endswith(filename, ".log") \/ endswith(filename, ".tmp"))

\* One os.walk from directory root of project t: its files, then each kept
\* sub-directory in turn.
RECURSIVE walk(_, _)
walk(t, root) ==
    LET InRoot(e) == e.parent = root
        entries == SelectSeq(t, InRoot)
        IsKeptDir(e) == e.dir /\ keep_dir(e.name)
        IsKeptFile(e) == ~e.dir /\ keep_file(e.name)
        dirs == SelectSeq(entries, IsKeptDir)
        filenames == SelectSeq(entries, IsKeptFile)
    IN  [i \in 1..Len(filenames) |-> relpath(root, filenames[i].name)] \o
        Flatten([i \in 1..Len(dirs) |-> walk(t, relpath(root, dirs[i].name))])

_get_project_files(t) == walk(t, ".")

\* _get_project_files at a project_path that names r: os.walk (line 45)
\* is called without onerror, so it swallows the error of listing a missing
\* path or a file and yields nothing.
scan(r, t) == IF r = "dir" THEN _get_project_files(t) ELSE <<>>

\* What self.project_path.iterdir() (line 138) raises at a root r.
iterdir_error(r) ==
    IF r = "missing" THEN "FileNotFoundError"
    ELSE IF r = "file" THEN "NotADirectoryError"
    ELSE None

\* Path(file).name
path_name(file) ==
    LET k == rfind(file, "/") IN IF k = 0 THEN file ELSE SubSeq(file, k + 1, Len(file))

\* Path(file).suffix
suffix(file) ==
    LET name == path_name(file)
        k == rfind(name, ".")
    IN  IF 1 < k /\ k < Len(name) THEN SubSeq(name, k, Len(name)) ELSE ""

\* A variant that asks for JavaScript before Python; C4 tells it from the code.
_detect_language_js_first(files) ==
    LET extensions == {lower(suffix(files[i])) : i \in 1..Len(files)} \ {""}
    IN  IF ".js" \in extensions \/ ".ts" \in extensions THEN "JavaScript/TypeScript"
        ELSE IF ".py" \in extensions THEN "Python"
        ELSE IF ".java" \in extensions THEN "Java"
        ELSE IF ".cpp" \in extensions \/ ".c" \in extensions THEN "C/C++"
        ELSE IF ".go" \in extensions THEN "Go"
        ELSE IF ".rs" \in extensions THEN "Rust"
        ELSE IF ".rb" \in extensions THEN "Ruby"
        ELSE IF ".php" \in extensions THEN "PHP"
        ELSE "Unknown"

\* The keys of the dict extensions are the lower-cased non-empty suffixes;
\* only the keys are read.
_detect_language(files) ==
    LET extensions == {lower(suffix(files[i])) : i \in 1..Len(files)} \ {""}
    IN  IF ".py" \in extensions THEN "Python"
        ELSE IF ".js" \in extensions \/ ".ts" \in extensions THEN "JavaScript/TypeScript"
        ELSE IF ".java" \in extensions THEN "Java"
        ELSE IF ".cpp" \in extensions \/ ".c" \in extensions THEN "C/C++"
        ELSE IF ".go" \in extensions THEN "Go"
        ELSE IF ".rs" \in extensions THEN "Rust"
        ELSE IF ".rb" \in extensions THEN "Ruby"
        ELSE IF ".php" \in extensions THEN "PHP"
        ELSE "Unknown"

\* any(s in f.lower() for f in files)
any_lower(files, s) == \E i \in 1..Len(files) : contains(lower(files[i]), s)

\* any(s in f for f in files)
any_exact(files, s) == \E i \in 1..Len(files) : contains(files[i], s)

_detect_framework(files, language) ==
    IF language = "Python" THEN
        IF any_lower(files, "django") THEN "Django"
        ELSE IF any_lower(files, "flask") THEN "Flask"
        ELSE IF any_lower(files, "fastapi") THEN "FastAPI"
        ELSE IF any_exact(files, "requirements.txt") THEN "Python"
        ELSE None
    ELSE IF language = "JavaScript/TypeScript" THEN
        IF any_exact(files, "package.json") THEN "Node.js"
        ELSE IF any_lower(files, "react") THEN "React"
        ELSE IF any_lower(files, "vue") THEN "Vue.js"
        ELSE IF any_lower(files, "angular") THEN "Angular"
        ELSE None
    ELSE None

(***************************************************************************)
(* Dependency extraction.  content holds, for a path, what reading the     *)
(* file gives: the lines delivered before any failure, whether open or a   *)
(* read failed, and for package.json what json.load gives.                 *)
(***************************************************************************)
\* What is on disk at a path nothing is recorded for: an empty file.
EmptyFile == [path |-> "", lines |-> <<>>, error |-> FALSE,
              json_error |-> FALSE, has_deps |-> FALSE, deps |-> <<>>,
              has_dev |-> FALSE, dev |-> <<>>]

\* open(self.project_path / path) of project contents c
read(c, path) ==
    IF \E i \in 1..Len(c) : c[i].path = path
    THEN c[CHOOSE i \in 1..Len(c) : c[i].path = path]
    ELSE EmptyFile

\* A variant that cuts at '==' only; C8 tells it from the code.
requirement_name_eq_only(line) == split_first(line, "==")

\* line.split('==')[0].split('>=')[0].split('<=')[0]
requirement_name(line) ==
    split_first(split_first(split_first(line, "=="), ">="), "<=")

\* The names one requirements file appends: lines 106 to 109.
RECURSIVE requirement_names(_)
requirement_names(lines) ==
    IF lines = <<>> THEN <<>>
    ELSE LET line == strip(Head(lines))
         IN  (IF line # "" /\ ~startswith(line, "#")
              THEN <<requirement_name(line)>> ELSE <<>>) \o
             requirement_names(Tail(lines))

\* A variant that reads the dependencies field only; C6 tells it from the code.
package_keys_deps_only(data) == IF data.has_deps THEN data.deps ELSE <<>>

\* What lines 118 to 121 append for a parsed package.json.
package_keys(data) ==
    (IF data.has_deps THEN data.deps ELSE <<>>) \o
    (IF data.has_dev THEN data.dev ELSE <<>>)

\* The list dependencies at line 124, before list(set(...))[:10].
collect_dependencies(c, files, language) ==
    IF language = "Python" THEN
        LET IsReq(f) == contains(lower(f), "requirements") \/ endswith(f, ".txt")
            req_files == SelectSeq(files, IsReq)
        IN  Flatten([i \in 1..Len(req_files) |->
                        requirement_names(read(c, req_files[i]).lines)])
    ELSE IF language = "JavaScript/TypeScript" THEN
        IF "package.json" \in Range(files) THEN
            LET data == read(c, "package.json")
            IN  IF data.error \/ data.json_error THEN <<>> ELSE package_keys(data)
        ELSE <<>>
    ELSE <<>>

\* The elements of xs, each once, in the order of their first occurrence.
RECURSIVE distinct(_)
distinct(xs) ==
    IF xs = <<>> THEN <<>>
    ELSE LET rest == distinct(SubSeq(xs, 1, Len(xs) - 1))
             x == xs[Len(xs)]
         IN  IF x \in Range(rest) THEN rest ELSE Append(rest, x)

Reverse(xs) == [i \in 1..Len(xs) |-> xs[Len(xs) + 1 - i]]

Rotate(xs, k) == [i \in 1..Len(xs) |-> xs[((i + k - 1) % Len(xs)) + 1]]

\* list(set(xs)): the distinct elements in an order the hash seed decides.
\* The orders taken are the rotations of the order of first occurrence and
\* of its reverse.
list_of_set(xs) ==
    LET d == distinct(xs)
    IN  IF d = <<>> THEN {<<>>}
        ELSE {Rotate(d, k) : k \in 0..(Len(d) - 1)} \cup
             {Rotate(Reverse(d), k) : k \in 0..(Len(d) - 1)}

\* list(set(dependencies))
dedup_orders(xs) == list_of_set(xs)

\* A variant without the slice; C5 tells it from the code.
truncate_none(xs) == xs

\* xs[:10]
truncate(xs) == Take(xs, 10)

(***************************************************************************)
(* Structure analysis and the flags                                        *)
(***************************************************************************)
\* any(ext in s for ext in pats)
any_in(pats, s) == \E ext \in pats : contains(s, ext)

\* The lists the loop body of lines 139 to 148 appends item e to.
categories(e) ==
    IF e.dir THEN
        IF e.name \in {"src", "app", "lib", "source"} THEN {"src_dirs"}
        ELSE IF contains(lower(e.name), "test") THEN {"test_dirs"}
        ELSE {}
    ELSE
        IF any_in({".json", ".yaml", ".yml", ".toml", ".ini"}, lower(e.name))
        THEN {"config_files"}
        ELSE IF any_in({".lock", ".spec", "build"}, lower(e.name)) THEN {"build_files"}
        ELSE {}

\* for item in self.project_path.iterdir(): every child of the root, in
\* listing order.
_analyze_structure(t) ==
    LET InRoot(e) == e.parent = "."
        items == SelectSeq(t, InRoot)
        Listed(k) == LET In(e) == k \in categories(e)
                         es == SelectSeq(items, In)
                     IN  [i \in 1..Len(es) |-> es[i].name]
    IN  [src_dirs |-> Listed("src_dirs"),
         config_files |-> Listed("config_files"),
         build_files |-> Listed("build_files"),
         test_dirs |-> Listed("test_dirs")]

_has_tests(files) == any_lower(files, "test") \/ any_lower(files, "spec")

_has_docs(files) == any_lower(files, "readme") \/ any_lower(files, "docs")

_has_license(files) == any_lower(files, "license")

_has_requirements(files, language) ==
    IF language = "Python" THEN
        \E i \in 1..Len(files) :
            contains(lower(files[i]), "requirements") \/ endswith(files[i], ".txt")
    ELSE IF language = "JavaScript/TypeScript" THEN "package.json" \in Range(files)
    ELSE FALSE

\* str.title(): a letter after a letter is lower-cased, any other letter
\* upper-cased.
RECURSIVE title_from(_, _)
title_from(s, after_letter) ==
    IF s = "" THEN ""
    ELSE LET c == Char(s, 1)
             u == find(UpperCase, c)
             l == find(LowerCase, c)
         IN  (IF u = 0 /\ l = 0 THEN c
              ELSE IF after_letter THEN Char(LowerCase, IF u # 0 THEN u ELSE l)
              ELSE Char(UpperCase, IF u # 0 THEN u ELSE l)) \o
             title_from(Tail(s), u # 0 \/ l # 0)

title(s) == title_from(s, FALSE)

_generate_description(name) ==
    "A " \o lower(title(replace(replace(name, "-", " "), "_", " "))) \o " project"

(***************************************************************************)
(* ProjectAnalyzer.analyze, one step per call it makes                     *)
(***************************************************************************)
\* The values of analyze() before it has computed any.
NoAnalysis ==
    [files |-> <<>>, language |-> None, framework |-> None, dependencies |-> <<>>,
     description |-> None,
     structure |-> [src_dirs |-> <<>>, config_files |-> <<>>, build_files |-> <<>>,
                    test_dirs |-> <<>>],
     has_tests |-> FALSE, has_docs |-> FALSE, has_license |-> FALSE,
     has_requirements |-> FALSE]

GetProjectFiles ==
    /\ apc = "files"
    /\ analysis' = [analysis EXCEPT !.files = scan(project_path, tree)]
    /\ apc' = "language"
    /\ UNCHANGED <<project_path, tree, content, collected, gvars, tvars, fvars, dvars, rvars, svars>>

DetectLanguage ==
    /\ apc = "language"
    /\ analysis' = [analysis EXCEPT !.language = _detect_language(analysis.files)]
    /\ apc' = "framework"
    /\ UNCHANGED <<project_path, tree, content, collected, gvars, tvars, fvars, dvars, rvars, svars>>

DetectFramework ==
    /\ apc = "framework"
    /\ analysis' = [analysis EXCEPT
                      !.framework = _detect_framework(analysis.files, analysis.language)]
    /\ apc' = "dependencies"
    /\ UNCHANGED <<project_path, tree, content, collected, gvars, tvars, fvars, dvars, rvars, svars>>

ExtractDependencies ==
    /\ apc = "dependencies"
    /\ collected' = collect_dependencies(content, analysis.files, analysis.language)
    /\ \E order \in dedup_orders(collected') :
        analysis' = [analysis EXCEPT !.dependencies = truncate(order)]
    /\ apc' = "structure"
    /\ UNCHANGED <<project_path, tree, content, gvars, tvars, fvars, dvars, rvars, svars>>

\* The remaining arguments of ProjectInfo(...): description, structure and
\* the four flags.
AnalyzeStructure ==
    /\ apc = "structure"
    /\ IF iterdir_error(project_path) # None
       THEN \* the exception leaves analyze(): no ProjectInfo is returned
            /\ apc' = "raised"
            /\ analysis' = [analysis EXCEPT
                              !.description = _generate_description(project_path_name)]
       ELSE /\ analysis' = [analysis EXCEPT
                              !.description = _generate_description(project_path_name),
                              !.structure = _analyze_structure(tree),
                              !.has_tests = _has_tests(analysis.files),
                              !.has_docs = _has_docs(analysis.files),
                              !.has_license = _has_license(analysis.files),
                              !.has_requirements =
                                  _has_requirements(analysis.files, analysis.language)]
            /\ apc' = "done"
    /\ UNCHANGED <<project_path, tree, content, collected, gvars, tvars, fvars, dvars, rvars, svars>>

analyze ==
    \/ GetProjectFiles
    \/ DetectLanguage
    \/ DetectFramework
    \/ ExtractDependencies
    \/ AnalyzeStructure

(***************************************************************************)
(* The projects analyze() is run on                                        *)
(***************************************************************************)
\* Entries a project directory holds at most.
MaxEntries == 3

\* Distinct packages a manifest declares at most.
MaxDeclared == 12

\* Lines of a hand-written requirements file at most.
MaxLines == 2

F(parent, name) == [parent |-> parent, name |-> name, dir |-> FALSE]
D(parent, name) == [parent |-> parent, name |-> name, dir |-> TRUE]

\* The entries of universe U at the positions S, in the order of U.
RECURSIVE PickFrom(_, _, _)
PickFrom(U, S, i) ==
    IF i > Len(U) THEN <<>>
    ELSE (IF i \in S THEN <<U[i]>> ELSE <<>>) \o PickFrom(U, S, i + 1)

\* A directory tree: every entry lies in the root or in a directory of the
\* tree, and a directory holds a name once.
IsTree(U, S) ==
    /\ \A i \in S : U[i].parent # "." =>
            \E j \in S : U[j].dir /\ relpath(U[j].parent, U[j].name) = U[i].parent
    /\ \A i, j \in S : (U[i].parent = U[j].parent /\ U[i].name = U[j].name) => i = j

Trees(U) ==
    {PickFrom(U, S, 1) :
        S \in {T \in SUBSET (1..Len(U)) : Cardinality(T) <= MaxEntries /\ IsTree(U, T)}}

\* Directories and files the walk has to decide on.
ScanUniverse ==
    <<D(".", ".git"), F(".git", "config"),
      D(".", "node_modules"), F("node_modules", "index.js"),
      D(".", "venv"), F("venv", "site.py"),
      D(".", "__pycache__"), F("__pycache__", "mod.py"),
      D(".", "src"), F("src", "main.py"), F("src", "venv"),
      D("src", "node_modules"), F("src/node_modules", "x.js"),
      F(".", ".env"), F(".", "app.log"), F(".", "node_modules"),
      F(".", ".DS_Store"), D(".", ".mypy_cache")>>

\* Files of every language category, and some of none.
LanguageUniverse ==
    <<F(".", "main.py"), F(".", "app.js"), F(".", "util.js"), F(".", "index.ts"),
      F(".", "Main.java"), F(".", "a.cpp"), F(".", "b.c"), F(".", "m.go"),
      F(".", "l.rs"), F(".", "g.rb"), F(".", "i.php"), F(".", "SETUP.PY"),
      F(".", "notes.")>>

\* Paths that name a framework, in either case.
FrameworkUniverse ==
    <<F(".", "main.py"), F(".", "index.js"), F(".", "m.go"),
      F(".", "flask.cfg"), F(".", "FastAPI.md"),
      F(".", "requirements.txt"), F(".", "Requirements.TXT"),
      F(".", "package.json"), F(".", "PACKAGE.JSON"),
      F(".", "React.md"), F(".", "vue.cfg"), F(".", "angular.cfg"),
      D(".", "django"), F("django", "x.md")>>

\* Children of the root that structure analysis classifies.
StructureUniverse ==
    <<D(".", "src"), D(".", "app"), D(".", "tests"), D(".", "TestData"),
      D(".", "docs"), F(".", "package.json"), F(".", "poetry.lock"),
      F(".", "app.spec.yml"), F(".", "build.gradle"), F(".", "Cargo.toml"),
      F(".", ".eslintrc.json"), F(".", "package-lock.json")>>

Digit(d) == Char("0123456789", d + 1)

\* The name of the i-th package.
Pkg(i) ==
    IF i = 1 THEN "react" ELSE IF i = 2 THEN "eslint"
    ELSE IF i < 10 THEN "pkg" \o Digit(i)
    ELSE "pkg" \o Digit(i \div 10) \o Digit(i % 10)

\* The version specifier of the i-th requirement line.
Specifier(i) == <<"==1.0", ">=2.0", "<=3.0", "">>[(i % 4) + 1]

\* Packages a..b, as the keys of a JSON object and as requirement lines.
Keys(a, b) == [i \in 1..(b - a + 1) |-> Pkg(a + i - 1)]
RequirementLines(a, b) ==
    [i \in 1..(b - a + 1) |-> Pkg(a + i - 1) \o Specifier(a + i - 1)]

\* Lines people write in a requirements file.
SampleLines ==
    {"", "# pinned", "  # indented", "  flask==2.0  ", "django>=3.2,<4", "x>==1",
     "a<=1>=0==2", "uvicorn[standard] ~= 0.2"}

RECURSIVE SeqsUpTo(_, _)
SeqsUpTo(S, n) ==
    IF n = 0 THEN {<<>>}
    ELSE LET shorter == SeqsUpTo(S, n - 1)
         IN  shorter \cup {Append(s, x) : s \in shorter, x \in S}

TextFile(path, lines, error) ==
    [path |-> path, lines |-> lines, error |-> error, json_error |-> FALSE,
     has_deps |-> FALSE, deps |-> <<>>, has_dev |-> FALSE, dev |-> <<>>]

\* A package.json: whether json.load fails, and the keys of its two fields.
PackageJson(json_error, has_deps, deps, has_dev, dev) ==
    [path |-> "package.json", lines |-> <<>>, error |-> FALSE,
     json_error |-> json_error, has_deps |-> has_deps, deps |-> deps,
     has_dev |-> has_dev, dev |-> dev]

Project(t, c) == [tree |-> t, content |-> c]

\* Python projects with one or two requirements files.
RequirementsProjects ==
    {Project(<<F(".", "main.py"), F(".", "requirements.txt")>>,
             <<TextFile("requirements.txt", RequirementLines(1, n), e)>>) :
        n \in 0..MaxDeclared, e \in BOOLEAN}
    \cup
    {Project(<<F(".", "main.py"), F(".", "requirements.txt")>>,
             <<TextFile("requirements.txt", ls, FALSE)>>) :
        ls \in SeqsUpTo(SampleLines, MaxLines)}
    \cup
    {Project(<<F(".", "main.py"), F(".", "requirements.txt"), F(".", "dev.txt")>>,
             <<TextFile("requirements.txt", RequirementLines(1, n), FALSE),
               TextFile("dev.txt", RequirementLines(a, a + 2), FALSE)>>) :
        n \in {1, 3, MaxDeclared - 2}, a \in {1, MaxDeclared - 1}}

\* Projects with a package.json at the root, beside sources of one language
\* or of none.
PackageProjects ==
    {Project(<<F(".", "package.json")>> \o rest,
             <<PackageJson(je, hd, Keys(1, n), hv, Keys(a, b))>>) :
        rest \in {<<>>, <<F(".", "index.js")>>, <<F(".", "app.ts")>>,
                  <<F(".", "main.py")>>, <<F(".", "m.go")>>},
        je \in BOOLEAN, hd \in BOOLEAN, hv \in BOOLEAN,
        n \in {1, 6}, a \in {2, 7}, b \in {2, 8, MaxDeclared}}
    \cup
    {Project(<<F(".", "index.js"), D(".", "web"), F("web", "package.json")>>,
             <<PackageJson(FALSE, TRUE, Keys(1, 1), TRUE, Keys(2, 2))>>)}

Projects ==
    {Project(t, <<>>) : t \in Trees(ScanUniverse) \cup Trees(LanguageUniverse)
                              \cup Trees(FrameworkUniverse) \cup Trees(StructureUniverse)}
    \cup RequirementsProjects \cup PackageProjects

\* generate_readme at rest, for the specifications that do not run it.
GeneratorIdle ==
    /\ info = NoAnalysis
    /\ rtype = "advanced"
    /\ selected_provider = "openai"
    /\ ai_providers = {}
    /\ gpc = "idle"
    /\ via = "none"
    /\ pre = "none"
    /\ resp = NoResp
    /\ prompt = None
    /\ readme = None

\* project_path names a directory with a project in it, or a file, or
\* nothing.
InitAnalyze ==
    /\ GeneratorIdle
    /\ TemplateIdle
    /\ ClassifierIdle
    /\ DeployIdle
    /\ RunIdle
    /\ SetupIdle
    /\ \/ project_path = "dir" /\ \E p \in Projects : tree = p.tree /\ content = p.content
       \/ project_path \in {"file", "missing"} /\ tree = <<>> /\ content = <<>>
    /\ apc = "files"
    /\ collected = <<>>
    /\ analysis = NoAnalysis

SpecAnalyze == InitAnalyze /\ [][analyze]_vars

(***************************************************************************)
(* READMEGenerator.generate_readme                                         *)
(***************************************************************************)
Providers == {"openai", "anthropic", "google", "huggingface", "ollama"}

Languages == {"Python", "JavaScript/TypeScript", "Java", "C/C++", "Go", "Rust",
              "Ruby", "PHP", "Unknown"}

\* The document types the callers pass, and one they do not.
ReadmeTypes == {"simple", "advanced", "installation", "minimal"}

\* The descriptors generate_readme is given.
ProjectInfos ==
    {[name |-> "my-cool-app",
      description |-> "A my cool app project",
      language |-> l,
      framework |-> f,
      dependencies |-> IF l = "Python" THEN <<"flask", "requests">> ELSE <<>>,
      files |-> <<"main.py", "README.md">>,
      structure |-> [src_dirs |-> <<>>, config_files |-> c, build_files |-> <<>>,
                     test_dirs |-> <<>>],
      has_tests |-> t, has_docs |-> TRUE, has_license |-> FALSE,
      has_requirements |-> FALSE] :
        l \in Languages, f \in {None, "Flask"}, t \in BOOLEAN,
        c \in {<<>>, <<"package.json", "tsconfig.json">>}}

\* What the pre-flight check of a provider answers: it raises, the endpoint
\* answers another status than 200, the listing cannot be read, the listing
\* lacks the model, or the model is there.
SdkPre == {"raise", "absent", "ok"}
HfPre == {"raise", "status", "ok"}
OllamaPre == {"raise", "status", "bad_json", "absent", "ok"}

\* What chat.completions.create, messages.create and generate_content answer.
SdkResponses ==
    {[raises |-> TRUE, status |-> 0, body |-> JNull]} \cup
    {[raises |-> FALSE, status |-> 200, body |-> JList(c)] :
        c \in {<<>>, <<JStr(GeneratedText)>>, <<JStr("")>>}}

\* The bodies an HTTP endpoint answers.
Bodies ==
    {JInvalid, JNull, JStr("Model is loading"), JList(<<>>),
     JList(<<JStr("x")>>), JList(<<JDict(<<>>)>>),
     JList(<<JDict(<< <<"generated_text", GeneratedText>> >>)>>),
     JDict(<<>>), JDict(<< <<"error", "Model is loading">> >>),
     JDict(<< <<"generated_text", GeneratedText>> >>),
     JDict(<< <<"response", GeneratedText>> >>),
     JDict(<< <<"response", "">> >>)}

\* What session.post answers.
HttpResponses ==
    {[raises |-> TRUE, status |-> 0, body |-> JNull]} \cup
    {[raises |-> FALSE, status |-> 200, body |-> b] : b \in Bodies} \cup
    {[raises |-> FALSE, status |-> 503, body |-> JDict(<< <<"error", "Model is loading">> >>)]}

\* The state generate_readme leaves: the branch taken, what the provider
\* answered, the prompt it was sent (once the pre-flight check passed) and
\* the value returned.
Returned(taken, p, r, text) ==
    /\ gpc = "ready"
    /\ gpc' = "done"
    /\ via' = taken
    /\ pre' = p
    /\ resp' = IF p = "ok" THEN r ELSE NoResp
    /\ prompt' = IF p = "ok" THEN _create_ai_prompt(info, rtype) ELSE None
    /\ readme' = text
    /\ UNCHANGED <<info, rtype, selected_provider, ai_providers, avars, tvars, fvars, dvars, rvars, svars>>

GenerateOpenAI ==
    /\ client("openai")
    /\ \E p \in SdkPre, r \in SdkResponses :
        Returned("openai", p, r, _generate_openai_readme(info, rtype, p, r))

GenerateAnthropic ==
    /\ ~client("openai") /\ client("anthropic")
    /\ \E p \in SdkPre, r \in SdkResponses :
        Returned("anthropic", p, r, _generate_anthropic_readme(info, rtype, p, r))

GenerateGoogle ==
    /\ ~client("openai") /\ ~client("anthropic") /\ client("google")
    /\ \E p \in SdkPre, r \in SdkResponses :
        Returned("google", p, r, _generate_google_readme(info, rtype, p, r))

GenerateHuggingFace ==
    /\ ~client("openai") /\ ~client("anthropic") /\ ~client("google")
    /\ client("huggingface")
    /\ \E p \in HfPre, r \in HttpResponses :
        Returned("huggingface", p, r, _generate_huggingface_readme(info, rtype, p, r))

GenerateOllama ==
    /\ ~client("openai") /\ ~client("anthropic") /\ ~client("google")
    /\ ~client("huggingface") /\ client("ollama")
    /\ \E p \in OllamaPre, r \in HttpResponses :
        Returned("ollama", p, r, _generate_ollama_readme(info, rtype, p, r))

GenerateTemplate ==
    /\ \A prov \in Providers : ~client(prov)
    /\ Returned("template", "none", NoResp, _generate_template_readme(info, rtype))

generate_readme ==
    \/ GenerateOpenAI
    \/ GenerateAnthropic
    \/ GenerateGoogle
    \/ GenerateHuggingFace
    \/ GenerateOllama
    \/ GenerateTemplate

\* The analyzer at rest, for the specifications that do not run it.
AnalyzerIdle ==
    /\ project_path = "dir"
    /\ tree = <<>>
    /\ content = <<>>
    /\ apc = "idle"
    /\ collected = <<>>
    /\ analysis = NoAnalysis

InitGen ==
    /\ AnalyzerIdle
    /\ TemplateIdle
    /\ ClassifierIdle
    /\ DeployIdle
    /\ RunIdle
    /\ SetupIdle
    /\ info \in ProjectInfos
    /\ rtype \in ReadmeTypes
    /\ selected_provider \in Providers
    /\ ai_providers \in {{}, {selected_provider}}
    /\ gpc = "ready"
    /\ via = "none"
    /\ pre = "none"
    /\ resp = NoResp
    /\ prompt = None
    /\ readme = None

SpecGen == InitGen /\ [][generate_readme]_vars

(***************************************************************************)
(* READMEGenerator._generate_template_readme called again and again on    *)
(* one descriptor                                                          *)
(***************************************************************************)
\* Calls made on one descriptor at most.
MaxCalls == 2

\* A variant that consumes the dependencies it lists (del
\* project_info.dependencies[:5] in place of the slice of line 402); C12
\* tells it from the code.
TemplateCallConsuming ==
    /\ Len(outputs) < MaxCalls
    /\ outputs' = Append(outputs, _generate_template_readme(info, rtype))
    /\ info' = [info EXCEPT !.dependencies = <<>>]
    /\ UNCHANGED <<rtype, selected_provider, ai_providers, gpc, via, pre, resp,
                   prompt, readme, passed, avars, fvars, dvars, rvars, svars>>

\* One call: the templates read project_info (attributes, the slice
\* dependencies[:5], structure['config_files']) and assign nothing to it.
TemplateCall ==
    /\ Len(outputs) < MaxCalls
    /\ outputs' = Append(outputs, _generate_template_readme(info, rtype))
    /\ UNCHANGED <<info, rtype, selected_provider, ai_providers, gpc, via, pre, resp,
                   prompt, readme, passed, avars, fvars, dvars, rvars, svars>>

InitTemplate ==
    /\ AnalyzerIdle
    /\ ClassifierIdle
    /\ DeployIdle
    /\ RunIdle
    /\ SetupIdle
    /\ info \in ProjectInfos
    /\ rtype \in ReadmeTypes
    /\ selected_provider = "openai"
    /\ ai_providers = {}
    /\ gpc = "idle"
    /\ via = "none"
    /\ pre = "none"
    /\ resp = NoResp
    /\ prompt = None
    /\ readme = None
    /\ passed = info
    /\ outputs = <<>>

SpecTemplate == InitTemplate /\ [][TemplateCall]_vars

(***************************************************************************)
(* neogit.utils.file_utils.  A bytes value is a sequence of 0..255.        *)
(***************************************************************************)
EXCLUDE_PATTERNS ==
    <<".git", "node_modules", "__pycache__", "venv", ".DS_Store", ".mypy_cache">>

MAX_FILE_SIZE == 5 * 1024 * 1024

\* {7,8,9,10,12,13,27} | set(range(0x20, 0x100)) - {0x7f}: the difference
\* binds tighter than the union.
textchars == {7, 8, 9, 10, 12, 13, 27} \cup ((32..255) \ {127})

\* content.translate(None, delete): content without the bytes of delete.
translate(content_bytes, delete) ==
    LET Kept(b) == b \notin delete
    IN  SelectSeq(content_bytes, Kept)

\* A variant that looks for the byte 0 only; C13 tells it from the code.
is_binary_nul_only(content_bytes) == \E i \in 1..Len(content_bytes) : content_bytes[i] = 0

is_binary(content_bytes) == translate(content_bytes, textchars) # <<>>

should_exclude(file_path) ==
    \E i \in 1..Len(EXCLUDE_PATTERNS) : contains(file_path, EXCLUDE_PATTERNS[i])

\* What a call answers: the value returned, unless it raises.
Answer(value) == [raises |-> FALSE, value |-> value]
Raises == [raises |-> TRUE, value |-> FALSE]

\* is_large on the path of file f: os.path.getsize raises OSError for a
\* path without a file.
is_large(f) == IF f.exists THEN Answer(f.size > MAX_FILE_SIZE) ELSE Raises

\* Longest buffer built from the sample bytes, and longest path in segments.
MaxBufLen == 2
MaxSegments == 2

\* Bytes on both sides of every edge of textchars.
SampleBytes == {0, 7, 8, 9, 11, 27, 32, 65, 126, 127, 128, 255}

\* Every one-byte buffer, and the buffers of sample bytes.
Buffers == {<<b>> : b \in 0..255} \cup SeqsUpTo(SampleBytes, MaxBufLen)

\* Path segments: the patterns, names that contain one, and plain names.
SampleSegments ==
    {".git", "node_modules", "__pycache__", "venv", ".DS_Store", ".mypy_cache",
     "src", "venv_tools", "my.gitignore", ".env", "main.py", "nodemodules"}

RECURSIVE PathsUpTo(_)
PathsUpTo(n) ==
    IF n = 1 THEN SampleSegments
    ELSE LET shorter == PathsUpTo(n - 1)
         IN  shorter \cup {p \o "/" \o s : p \in shorter, s \in SampleSegments}

\* A path without a file, and files of the sizes around MAX_FILE_SIZE.
SizedFiles ==
    {[exists |-> FALSE, size |-> 0]} \cup
    {[exists |-> TRUE, size |-> n] :
        n \in {0, MAX_FILE_SIZE - 1, MAX_FILE_SIZE, MAX_FILE_SIZE + 1}}

Classified(f, v) ==
    /\ fpc = "ready" /\ fn = f
    /\ fpc' = "done"
    /\ verdict' = v
    /\ UNCHANGED <<fn, arg, avars, gvars, tvars, dvars, rvars, svars>>

IsBinary == Classified("is_binary", Answer(is_binary(arg)))
ShouldExclude == Classified("should_exclude", Answer(should_exclude(arg)))
IsLarge == Classified("is_large", is_large(arg))

classify == IsBinary \/ ShouldExclude \/ IsLarge

InitClassify ==
    /\ AnalyzerIdle
    /\ GeneratorIdle
    /\ TemplateIdle
    /\ DeployIdle
    /\ RunIdle
    /\ SetupIdle
    /\ \/ fn = "is_binary" /\ arg \in Buffers
       \/ fn = "should_exclude" /\ arg \in PathsUpTo(MaxSegments)
       \/ fn = "is_large" /\ arg \in SizedFiles
    /\ fpc = "ready"
    /\ verdict = None

SpecClassify == InitClassify /\ [][classify]_vars


(***************************************************************************)
(* neogit/github/manager.py: GitHubManager.deploy_project                  *)
(***************************************************************************)
\* manager.py keeps its own copies of the two settings (lines 14-15).
manager_EXCLUDE_PATTERNS ==
    {".git", ".venv", "__pycache__", ".env", "node_modules", ".DS_Store", ".idea",
     ".vscode", "neogit.egg-info", "dist", "build", ".mypy_cache"}

manager_MAX_FILE_SIZE == 5 * 1024 * 1024

Digits == "0123456789"

\* str.isalnum() of one ASCII character
isalnum(c) == contains(UpperCase \o LowerCase \o Digits, c)

\* ''.join(c for c in s if c.isalnum() or c in '-_')
RECURSIVE keep_name_chars(_)
keep_name_chars(s) ==
    IF s = "" THEN ""
    ELSE (IF isalnum(Char(s, 1)) \/ Char(s, 1) \in {"-", "_"} THEN Char(s, 1) ELSE "")
         \o keep_name_chars(SubSeq(s, 2, Len(s)))

\* The repository name deploy_project derives from the project's name.
repo_name(name) == keep_name_chars(replace(replace(name, " ", "-"), "_", "-"))

\* A file of the project with its size on disk and its bytes.
FD(parent, name, size, data) ==
    [parent |-> parent, name |-> name, dir |-> FALSE, size |-> size, data |-> data]

DD(parent, name) ==
    [parent |-> parent, name |-> name, dir |-> TRUE, size |-> 0, data |-> <<>>]

\* bytes.decode('utf-8') succeeds on content_bytes
RECURSIVE utf8_valid(_)
utf8_valid(bs) ==
    IF bs = <<>> THEN TRUE
    ELSE LET b == Head(bs)
             n == Len(bs)
             Cont(i) == bs[i] \in 128..191
         IN  IF b < 128 THEN utf8_valid(Tail(bs))
             ELSE IF b \in 194..223 THEN
                 n >= 2 /\ Cont(2) /\ utf8_valid(SubSeq(bs, 3, n))
             ELSE IF b \in 224..239 THEN
                 /\ n >= 3
                 /\ bs[2] \in (IF b = 224 THEN 160..191
                               ELSE IF b = 237 THEN 128..159 ELSE 128..191)
                 /\ Cont(3)
                 /\ utf8_valid(SubSeq(bs, 4, n))
             ELSE IF b \in 240..244 THEN
                 /\ n >= 4
                 /\ bs[2] \in (IF b = 240 THEN 144..191
                               ELSE IF b = 244 THEN 128..143 ELSE 128..191)
                 /\ Cont(3) /\ Cont(4)
                 /\ utf8_valid(SubSeq(bs, 5, n))
             ELSE FALSE

\* The walk of _upload_files (lines 54-58) from directory top of project t:
\* the files it does not pass over by name, a directory's own files before
\* those of its kept sub-directories.
RECURSIVE visited(_, _)
visited(t, top) ==
    LET InTop(e) == e.parent = top
        entries == SelectSeq(t, InTop)
        IsKeptDir(e) ==
            e.dir /\ e.name \notin manager_EXCLUDE_PATTERNS /\ ~startswith(e.name, ".")
        IsKeptFile(e) ==
            ~e.dir /\ ~(startswith(e.name, ".") \/ e.name \in manager_EXCLUDE_PATTERNS)
        dirs == SelectSeq(entries, IsKeptDir)
    IN  SelectSeq(entries, IsKeptFile) \o
        Flatten([i \in 1..Len(dirs) |-> visited(t, relpath(top, dirs[i].name))])

\* The pair the walk makes of a visited file (lines 59-62).
upload_pair(e, rp) ==
    LET file_path == relpath(e.parent, e.name)
    IN  [file_path |-> file_path,
         rel_path |-> IF file_path = rp THEN "README.md" ELSE file_path]

too_large(e) == e.size > manager_MAX_FILE_SIZE

\* files_to_upload after the walk (lines 63-66)
gathered(t, rp) ==
    LET Fits(e) == ~too_large(e)
        es == SelectSeq(visited(t, "."), Fits)
    IN  [i \in 1..Len(es) |-> upload_pair(es[i], rp)]

Notice(kind, path) == [kind |-> kind, path |-> path]

\* The "Skipping large file" notices of the walk, in order (line 64).
skip_notices(t, rp) ==
    LET es == SelectSeq(visited(t, "."), too_large)
    IN  [i \in 1..Len(es) |-> Notice("skip_large", upload_pair(es[i], rp).rel_path)]

\* The bytes open(file_path, 'rb').read() returns.
file_data(t, file_path) ==
    LET Named(e) == ~e.dir /\ relpath(e.parent, e.name) = file_path
    IN  SelectSeq(t, Named)[1].data

\* A read of the disk or a call to the host, and whether it returned.
Op(op, path, ok) == [op |-> op, path |-> path, ok |-> ok]

Branches == {"main", "dev", "side"}

NoFiles == [b \in Branches |-> {}]

Repo(branches, default_branch, files) ==
    [exists |-> TRUE, branches |-> branches, default_branch |-> default_branch,
     files |-> files]

NoRepo == [exists |-> FALSE, branches |-> {}, default_branch |-> None, files |-> NoFiles]

\* Calls that fail for reasons outside the program, at most.
MaxFailures == 1

\* Times the user answers "r" for one file, at most.
MaxRetries == 1

may_fail == failures < MaxFailures

\* Where deploy_project goes with what _get_or_create_repo returned (lines
\* 27-30): it returns on None; and a deploy_project without that test.
after_repo_unchecked(got) == "gather"

after_repo(got) == IF got THEN "gather" ELSE "returned"

\* deploy_project up to its call of _upload_files (lines 24-30), with
\* _get_or_create_repo (lines 32-49).
GetOrCreateRepo ==
    /\ dpc = "deploy"
    /\ LET name == repo_name(info.name)
           Got == /\ ops' = ops \o <<Op("get_repo", name, TRUE)>>
                  /\ console' = Append(console, Notice("exists", name))
                  /\ dpc' = after_repo(TRUE)
                  /\ UNCHANGED <<remote, failures>>
           Created == /\ ops' = ops \o <<Op("get_repo", name, FALSE),
                                         Op("create_repo", name, TRUE)>>
                      /\ remote' = Repo({}, None, NoFiles)
                      /\ console' = Append(console, Notice("created", name))
                      /\ dpc' = after_repo(TRUE)
                      /\ UNCHANGED failures
           Failed(n) == /\ ops' = ops \o <<Op("get_repo", name, FALSE),
                                           Op("create_repo", name, FALSE)>>
                        /\ console' = console \o <<Notice("create_error", name),
                                                   Notice("failed_repo", name)>>
                        /\ failures' = failures + n
                        /\ dpc' = after_repo(FALSE)
                        /\ UNCHANGED remote
       IN  IF remote.exists
           THEN Got \/ (may_fail /\ Failed(1))
           ELSE Created \/ (may_fail /\ Failed(1))
    /\ UNCHANGED <<branch, readme_path, files_to_upload, pos, retries, tree_elements,
                   outcomes, avars, gvars, tvars, fvars, rvars, svars>>

\* The walk of _upload_files (lines 53-66).
Gather ==
    /\ dpc = "gather"
    /\ files_to_upload' = gathered(tree, readme_path)
    /\ console' = console \o skip_notices(tree, readme_path)
    /\ dpc' = "branch"
    /\ UNCHANGED <<remote, branch, readme_path, pos, retries, failures, tree_elements,
                   ops, outcomes, avars, gvars, tvars, fvars, rvars, svars>>

\* The first pair of the list whatever its name, as a sequence of at most
\* one.
readme_tuple_first(pairs) == Take(pairs, 1)

\* The first pair whose name is README.md in any case (line 76), as a
\* sequence of at most one.
readme_tuple(pairs) ==
    LET IsReadme(p) == lower(p.rel_path) = "readme.md"
    IN  Take(SelectSeq(pairs, IsReadme), 1)

\* The upload list without the pair used for the first commit (line 86),
\* and the list had the pair been left in it.
remaining_all(pairs, t) == pairs

remaining(pairs, t) ==
    LET NotIt(p) == p # t
    IN  SelectSeq(pairs, NotIt)

\* "Ensure branch exists" (lines 68-100).
\* The branch a missing target branch is made from (lines 94-97): main when
\* the repository has it, else the default branch; and the default branch
\* whatever else there is.
base_branch_default(r) == r.default_branch

base_branch(r) == IF "main" \in r.branches THEN "main" ELSE r.default_branch

EnsureBranch ==
    /\ dpc = "branch"
    /\ LET ref == Op("get_git_ref", branch, TRUE)
           no_ref == Op("get_git_ref", branch, FALSE)
           Leave(o, n, c, d, r, fs) ==
               /\ ops' = ops \o o
               /\ failures' = failures + n
               /\ console' = console \o c
               /\ dpc' = d
               /\ remote' = r
               /\ files_to_upload' = fs
               /\ pos' = IF d = "loop" THEN 1 ELSE pos
           Same(o, n, d) == Leave(o, n, <<>>, d, remote, files_to_upload)
       IN  IF remote.branches = {} THEN
               \* the host answers 409, "Git Repository is empty"
               LET rt == readme_tuple(files_to_upload)
               IN  IF rt = <<>> THEN
                       Leave(<<no_ref>>, 0, <<Notice("cannot_init", "README.md")>>,
                             "returned", remote, files_to_upload)
                   ELSE
                       LET fp == rt[1].file_path
                           rel == rt[1].rel_path
                           rd == Op("read", fp, TRUE)
                           made == Repo({branch}, branch,
                                        [NoFiles EXCEPT ![branch] = {rel}])
                       IN  \/ may_fail /\ Same(<<no_ref, Op("read", fp, FALSE)>>, 1, "raised")
                           \/ ~utf8_valid(file_data(tree, fp))
                                /\ Same(<<no_ref, rd>>, 0, "raised")
                           \/ utf8_valid(file_data(tree, fp)) /\ may_fail
                                /\ Same(<<no_ref, rd, Op("create_file", rel, FALSE)>>, 1,
                                        "raised")
                           \/ utf8_valid(file_data(tree, fp))
                                /\ Leave(<<no_ref, rd, Op("create_file", rel, TRUE), ref>>, 0,
                                         <<Notice("initialized", rel)>>, "loop", made,
                                         remaining(files_to_upload, rt[1]))
                           \/ utf8_valid(file_data(tree, fp)) /\ may_fail
                                /\ Leave(<<no_ref, rd, Op("create_file", rel, TRUE), no_ref>>,
                                         1, <<Notice("initialized", rel)>>, "raised", made,
                                         remaining(files_to_upload, rt[1]))
           ELSE IF branch \in remote.branches THEN
               LET src == base_branch(remote)
               IN  \/ Same(<<ref>>, 0, "loop")
                   \* the ref is there but the call fails: the handler takes the
                   \* branch for missing, and creating it is refused
                   \/ may_fail
                        /\ Same(<<no_ref, Op("get_git_ref", src, TRUE),
                                  Op("create_git_ref", src, FALSE)>>, 1, "raised")
           ELSE
               LET has_main == "main" \in remote.branches
                   src == base_branch(remote)
                   look == IF has_main THEN <<Op("get_git_ref", "main", TRUE)>>
                           ELSE <<Op("get_git_ref", "main", FALSE),
                                  Op("get_git_ref", src, TRUE)>>
                   made == [remote EXCEPT !.branches = @ \cup {branch},
                                          !.files[branch] = remote.files[src]]
               IN  \/ Leave(<<no_ref>> \o look \o <<Op("create_git_ref", src, TRUE)>>, 0,
                            <<>>, "loop", made, files_to_upload)
                   \/ may_fail
                        /\ Same(<<no_ref>> \o look \o <<Op("create_git_ref", src, FALSE)>>,
                                1, "raised")
    /\ UNCHANGED <<branch, readme_path, retries, tree_elements, outcomes,
                   avars, gvars, tvars, fvars, rvars, svars>>

\* What one pass through the try block of the upload loop (lines 107-131)
\* can come to for the pair p: the calls made, whether the pass reached its
\* break, whether it staged a blob, whether it created the file on the
\* branch, and the failures from outside it took.
Pass(o, ok, staged, created, n) ==
    [ops |-> o, ok |-> ok, staged |-> staged, created |-> created, n |-> n]

passes(p) ==
    LET content_bytes == file_data(tree, p.file_path)
        rel == p.rel_path
        rd == Op("read", p.file_path, TRUE)
        there == rel \in remote.files[branch]
        probe == Op("get_contents", rel, there)
        decodes == utf8_valid(content_bytes)
        Call(op, ok) == Op(op, rel, ok)
    IN  {Pass(<<Op("read", p.file_path, FALSE)>>, FALSE, FALSE, FALSE, 1)}
        \cup
        (IF is_binary(content_bytes) THEN
            {Pass(<<rd, Call("create_git_blob", TRUE)>>, TRUE, TRUE, FALSE, 0),
             Pass(<<rd, Call("create_git_blob", FALSE)>>, FALSE, FALSE, FALSE, 1)}
         ELSE
            \* the probe fails of itself, with an error that is not a 404
            {Pass(<<rd, Call("get_contents", FALSE)>>, FALSE, FALSE, FALSE, 1)}
            \cup
            (IF ~decodes THEN {Pass(<<rd, probe>>, FALSE, FALSE, FALSE, 0)}
             ELSE IF there THEN
                {Pass(<<rd, probe, Call("update_file", TRUE)>>, TRUE, FALSE, FALSE, 0),
                 \* update_file fails, with an error that is not a 404
                 Pass(<<rd, probe, Call("update_file", FALSE)>>, FALSE, FALSE, FALSE, 1),
                 \* update_file fails with a 404: create_file is tried, and the
                 \* host refuses it, the file being there
                 Pass(<<rd, probe, Call("update_file", FALSE), Call("create_file", FALSE)>>,
                      FALSE, FALSE, FALSE, 1)}
             ELSE
                {Pass(<<rd, probe, Call("create_file", TRUE)>>, TRUE, FALSE, TRUE, 0),
                 Pass(<<rd, probe, Call("create_file", FALSE)>>, FALSE, FALSE, FALSE, 1)}))

\* Where the for loop goes when the while loop of file i is left by break
\* (line 105); and a loop that a break would end.
next_file_none(i) == Len(files_to_upload) + 1

next_file(i) == i + 1

Outcome(path, result) == [path |-> path, result |-> result]

\* The user's answer to "Retry (r), Skip (s), or Abort (a)?" (lines 134-144);
\* handle_abort is the statement the answer "a" runs.
Answered(p, answer, handle_abort) ==
    IF answer = "r" THEN
        /\ retries < MaxRetries
        /\ retries' = retries + 1
        /\ console' = Append(console, Notice("error", p.rel_path))
        /\ UNCHANGED <<pos, dpc, outcomes>>
    ELSE IF answer = "s" \/ handle_abort = "break" THEN
        /\ pos' = next_file(pos)
        /\ retries' = 0
        /\ console' = console \o
              (<<Notice("error", p.rel_path)>> \o
               IF answer = "a" THEN <<Notice("aborted", p.rel_path)>> ELSE <<>>)
        /\ outcomes' = Append(outcomes, Outcome(p.rel_path,
                                                IF answer = "a" THEN "aborted" ELSE "skipped"))
        /\ UNCHANGED dpc
    ELSE
        /\ dpc' = "returned"
        /\ console' = console \o <<Notice("error", p.rel_path),
                                   Notice("aborted", p.rel_path)>>
        /\ outcomes' = Append(outcomes, Outcome(p.rel_path, "aborted"))
        /\ UNCHANGED <<pos, retries>>

\* One pass of `while True` for the file the loop is at (lines 105-146).
Attempt(handle_abort) ==
    /\ dpc = "loop"
    /\ pos <= Len(files_to_upload)
    /\ LET p == files_to_upload[pos]
       IN  \E o \in passes(p) :
            /\ o.n = 0 \/ may_fail
            /\ ops' = ops \o o.ops
            /\ failures' = failures + o.n
            /\ tree_elements' = IF o.staged THEN Append(tree_elements, p.rel_path)
                                ELSE tree_elements
            /\ remote' = IF o.created
                         THEN [remote EXCEPT !.files[branch] = @ \cup {p.rel_path}]
                         ELSE remote
            /\ IF o.ok THEN
                   /\ pos' = next_file(pos)
                   /\ retries' = 0
                   /\ outcomes' = Append(outcomes,
                                         Outcome(p.rel_path,
                                                 IF o.staged THEN "staged" ELSE "uploaded"))
                   /\ UNCHANGED <<console, dpc>>
               ELSE \E answer \in {"r", "s", "a"} : Answered(p, answer, handle_abort)
    /\ UNCHANGED <<branch, readme_path, files_to_upload, avars, gvars, tvars, fvars, rvars, svars>>

\* The upload loop with "a" handled as "s" is.
UploadAttemptAbortSkips == Attempt("break")

UploadAttempt == Attempt("return")

\* The for loop over files_to_upload (line 105) has run out of files; and
\* a loop that could be left at any file.
loop_done_anywhere == TRUE

\* A loop that never runs out of files.
loop_done_never == FALSE

loop_done == pos > Len(files_to_upload)

\* "Commit binary files if any" (lines 147-160), which is where
\* _upload_files ends.
CommitBinaries ==
    /\ dpc = "loop"
    /\ loop_done
    /\ dpc' = "returned"
    /\ IF tree_elements = <<>> THEN UNCHANGED <<ops, console, remote, failures>>
       ELSE
           LET ref == Op("get_git_ref", branch, TRUE)
               Step(op, ok) == Op(op, branch, ok)
               Fail(o) == /\ may_fail
                          /\ ops' = ops \o o
                          /\ failures' = failures + 1
                          /\ console' = Append(console, Notice("commit_error", branch))
                          /\ UNCHANGED remote
           IN  \/ /\ ops' = ops \o <<ref, Step("create_git_tree", TRUE),
                                     Step("create_git_commit", TRUE),
                                     Step("ref_edit", TRUE)>>
                  /\ remote' = [remote EXCEPT !.files[branch] = @ \cup Range(tree_elements)]
                  /\ console' = Append(console, Notice("committed", branch))
                  /\ UNCHANGED failures
               \/ Fail(<<Op("get_git_ref", branch, FALSE)>>)
               \/ Fail(<<ref, Step("create_git_tree", FALSE)>>)
               \/ Fail(<<ref, Step("create_git_tree", TRUE),
                         Step("create_git_commit", FALSE)>>)
               \/ Fail(<<ref, Step("create_git_tree", TRUE), Step("create_git_commit", TRUE),
                         Step("ref_edit", FALSE)>>)
    /\ UNCHANGED <<branch, readme_path, files_to_upload, pos, retries, tree_elements,
                   outcomes, avars, gvars, tvars, fvars, rvars, svars>>

deploy_project == GetOrCreateRepo \/ Gather \/ EnsureBranch \/ UploadAttempt \/ CommitBinaries

(***************************************************************************)
(* The projects and repositories deploy_project is run on                  *)
(***************************************************************************)
Text == <<35, 32, 104, 105>>
Latin1 == <<99, 97, 102, 233>>
Image == <<137, 80, 78, 71, 0>>

Large == manager_MAX_FILE_SIZE + 1

\* Projects with files on either side of every test of the walk and of the
\* upload loop, in the order the directory listing gives them. A file of
\* 5 MiB or more stands with the bytes it begins with.
DeployTrees ==
    {<<>>,
     <<FD(".", "README.md", 4, Text), FD(".", "main.py", 4, Text)>>,
     <<FD(".", "README.md", 4, Text), FD(".", "logo.png", 5, Image),
       FD(".", "notes.txt", 4, Latin1), FD(".", "main.py", 4, Text)>>,
     <<FD(".", "logo.png", 5, Image), FD(".", "icon.png", 5, Image),
       FD(".", "main.py", 4, Text)>>,
     <<FD(".", "README.md", Large, Text), FD(".", "main.py", 4, Text)>>,
     <<FD(".", "README.md", 4, Text), FD(".", "data.bin", Large, Image),
       FD(".", "edge.bin", manager_MAX_FILE_SIZE, Image)>>,
     <<FD(".", "README.md", 4, Text), FD(".", ".gitignore", 4, Text),
       FD(".", ".cache", Large, Image), FD(".", "dist", 4, Text)>>,
     <<FD(".", "README.md", 4, Text), DD(".", "node_modules"),
       FD("node_modules", "dep.js", Large, Text), FD(".", "main.py", 4, Text)>>,
     <<DD(".", "docs"), FD("docs", "readme.md", 4, Text),
       FD("docs", "dump.sql", Large, Text), FD(".", "readme.md", 4, Text)>>,
     <<FD(".", "README.md", 4, Text), DD(".", "docs"),
       FD("docs", "readme.md", 4, Text)>>,
     <<FD(".", "notes.txt", 4, Latin1), FD(".", "main.py", 4, Text)>>,
     <<FD(".", "app.log", 4, Text), DD(".", "venv"), FD("venv", "pyvenv.cfg", 4, Text)>>}

\* The repository as deploy_project finds it: none, an empty one, and ones
\* with the branch asked for or without it.
Remotes ==
    {NoRepo, Repo({}, None, NoFiles)} \cup
    {Repo(bs, d, [b \in Branches |-> IF b \in bs THEN fs ELSE {}]) :
        bs \in {{"main"}, {"dev"}, {"main", "dev"}}, d \in {"main", "dev"},
        fs \in {{}, {"README.md", "notes.txt"}}} \cup
    {Repo({"main", "dev"}, d, [b \in Branches |-> IF b = "main" THEN {"README.md"}
                                                 ELSE IF b = "dev" THEN {"notes.txt"}
                                                 ELSE {}]) : d \in {"main", "dev"}}

ValidRemote(r) == r.exists /\ r.branches # {} => r.default_branch \in r.branches

DeployNames == {"my cool_app!"}

\* The descriptor of a project of name n, as far as deploy_project reads it.
Described(n) == [NoAnalysis EXCEPT !.description = _generate_description(n)] @@ [name |-> n]

InitDeploy ==
    /\ project_path = "dir" /\ tree \in DeployTrees /\ content = <<>>
    /\ apc = "idle" /\ collected = <<>> /\ analysis = NoAnalysis
    /\ info \in {Described(n) : n \in DeployNames}
    /\ rtype = "advanced" /\ selected_provider = "openai" /\ ai_providers = {}
    /\ gpc = "idle" /\ via = "none" /\ pre = "none" /\ resp = NoResp
    /\ prompt = None /\ readme = None
    /\ TemplateIdle
    /\ ClassifierIdle
    /\ RunIdle
    /\ SetupIdle
    /\ remote \in {r \in Remotes : ValidRemote(r)}
    /\ branch \in {"main", "side"}
    /\ readme_path \in {"README.md", "docs/readme.md"}
    /\ dpc = "deploy"
    /\ files_to_upload = <<>> /\ pos = 0 /\ retries = 0 /\ failures = 0
    /\ tree_elements = <<>> /\ ops = <<>> /\ console = <<>> /\ outcomes = <<>>

SpecDeploy == InitDeploy /\ [][deploy_project]_vars

\* _upload_files run to its end: the thread takes the next pass of the loop
\* while there is a file left, the user answers every prompt, and the commit
\* of the blobs follows the loop. The answer "r" is given MaxRetries times
\* for a file, at most.
SpecDeployFair == SpecDeploy /\ WF_vars(UploadAttempt) /\ WF_vars(CommitBinaries)

(***************************************************************************)
(* neogit/cli/main.py: the commands run and generate-readme                *)
(***************************************************************************)
ProviderOrder == <<"openai", "anthropic", "google", "huggingface", "ollama">>

\* available_providers: the configured providers, in the order of the loop
\* (lines 63-72 and 113-122).
available_providers(s) ==
    LET Configured(prov) == prov \in s.ai_providers
    IN  SelectSeq(ProviderOrder, Configured)

required_patterns == <<"mcp_client.config", ".env", "*.secret", ".venv", "node_modules">>

\* needs_update for a .gitignore of text g, None when there is no file
\* (lines 145-155).
needs_update(g) ==
    g = None \/ \E i \in 1..Len(required_patterns) : ~contains(g, required_patterns[i])

\* str.rstrip()
RECURSIVE rstrip(_)
rstrip(s) ==
    IF s = "" THEN ""
    ELSE IF Char(s, Len(s)) \in Whitespace THEN rstrip(SubSeq(s, 1, Len(s) - 1))
    ELSE s

\* The text written to .gitignore from the body the service answered
\* (lines 173-179).
RECURSIVE with_patterns(_, _)
with_patterns(text, i) ==
    IF i > Len(required_patterns) THEN text
    ELSE with_patterns(IF contains(text, required_patterns[i]) THEN text
                       ELSE text \o "\n" \o required_patterns[i], i + 1)

gitignore_content(body) ==
    LET stripped == rstrip(body)
        named == IF contains(stripped, "mcp_client.config") THEN stripped
                 ELSE stripped \o "\n# NeoGit config file\nmcp_client.config"
    IN  with_patterns(named, 2) \o "\n"

\* What requests.get answers for the gitignore service (lines 169-185): it
\* raises, or answers a status and a body.
GitignoreResponses ==
    {[raises |-> TRUE, status |-> 0, text |-> ""],
     [raises |-> FALSE, status |-> 404, text |-> "#!! ERROR: unknown is undefined !!#\n"],
     [raises |-> FALSE, status |-> 200, text |-> "__pycache__/\n*.pyc\n.env\n\n"]}

\* The project with the file name written at its root; the bytes of a
\* document that is not empty stand as those of a short text.
written(t, name, text) ==
    LET file == FD(".", name, Len(text), IF text = "" THEN <<>> ELSE Text)
        Is(e) == ~e.dir /\ e.parent = "." /\ e.name = name
    IN  IF \E i \in 1..Len(t) : Is(t[i])
        THEN [i \in 1..Len(t) |-> IF Is(t[i]) THEN file ELSE t[i]]
        ELSE Append(t, file)

\* A file written or a service called: the text provider, the gitignore
\* service.
Effect(kind, what) == [kind |-> kind, what |-> what]

\* The command prints kind and returns.
Stops(kind) ==
    /\ console' = Append(console, Notice(kind, ""))
    /\ cpc' = "stopped"
    /\ UNCHANGED svars
    /\ UNCHANGED <<selected_provider, ai_providers>>

\* The command goes on to position next with one of the providers
\* available: the only one, or the one the user selects.
GoesOn(available, next) ==
    /\ \E prov \in Range(available) : selected_provider' = prov
    /\ ai_providers' = Range(available)
    /\ cpc' = next
    /\ UNCHANGED console

\* run without its test of the GitHub credentials.
RunPreambleUnchecked ==
    /\ command = "run" /\ cpc = "start"
    /\ LET available == available_providers(settings)
       IN  IF available = <<>> THEN Stops("no_providers")
           ELSE IF project_path = "missing" THEN Stops("no_path")
           ELSE GoesOn(available, "gitignore")
    /\ UNCHANGED svars
    /\ UNCHANGED <<avars, info, rtype, gpc, via, pre, resp, prompt, readme, tvars, fvars,
                   remote, branch, readme_path, dpc, files_to_upload, pos, retries,
                   failures, tree_elements, ops, outcomes, command, settings, gitignore,
                   effects>>

\* run up to its test of the project path (lines 105-141).
RunPreamble ==
    /\ command = "run" /\ cpc = "start"
    /\ LET available == available_providers(settings)
       IN  IF available = <<>> THEN Stops("no_providers")
           ELSE IF ~Truthy(settings.github.token) \/ ~Truthy(settings.github.username)
                THEN Stops("no_credentials")
           ELSE IF project_path = "missing" THEN Stops("no_path")
           ELSE GoesOn(available, "gitignore")
    /\ UNCHANGED svars
    /\ UNCHANGED <<avars, info, rtype, gpc, via, pre, resp, prompt, readme, tvars, fvars,
                   remote, branch, readme_path, dpc, files_to_upload, pos, retries,
                   failures, tree_elements, ops, outcomes, command, settings, gitignore,
                   effects>>

\* generate-readme up to its test of the project path (lines 55-84).
GenerateReadmePreamble ==
    /\ command = "generate-readme" /\ cpc = "start"
    /\ LET available == available_providers(settings)
       IN  IF available = <<>> THEN Stops("no_providers")
           ELSE IF project_path = "missing" THEN Stops("no_path")
           ELSE GoesOn(available, "readme")
    /\ UNCHANGED svars
    /\ UNCHANGED <<avars, info, rtype, gpc, via, pre, resp, prompt, readme, tvars, fvars,
                   remote, branch, readme_path, dpc, files_to_upload, pos, retries,
                   failures, tree_elements, ops, outcomes, command, settings, gitignore,
                   effects>>

\* "Ensure .gitignore is present and up-to-date" of run (lines 143-186).
EnsureGitignore ==
    /\ command = "run" /\ cpc = "gitignore"
    /\ cpc' = "readme"
    /\ LET is_dir == project_path = "dir"
           detected == IF is_dir THEN lower(_detect_language(_get_project_files(tree)))
                       ELSE "python"
           called == Effect("gitignore_service", detected)
       IN  IF ~needs_update(IF is_dir THEN gitignore ELSE None)
           THEN UNCHANGED <<tree, gitignore, effects, console>>
           ELSE \E r \in GitignoreResponses :
                   IF r.raises \/ (r.status = 200 /\ ~is_dir) THEN
                       \* requests.get raised, or open() did at a path below a file
                       /\ effects' = Append(effects, called)
                       /\ console' = Append(console, Notice("gitignore_error", ".gitignore"))
                       /\ UNCHANGED <<tree, gitignore>>
                   ELSE IF r.status = 200 THEN
                       /\ effects' = effects \o
                                     <<called, Effect("write", ".gitignore")>>
                       /\ gitignore' = gitignore_content(r.text)
                       /\ tree' = written(tree, ".gitignore", gitignore')
                       /\ console' = Append(console, Notice("gitignore_written", ".gitignore"))
                   ELSE
                       /\ effects' = Append(effects, called)
                       /\ console' = Append(console, Notice("gitignore_failed", ".gitignore"))
                       /\ UNCHANGED <<tree, gitignore>>
    /\ UNCHANGED svars
    /\ UNCHANGED <<project_path, content, apc, collected, analysis, gvars, tvars, fvars,
                   remote, branch, readme_path, dpc, files_to_upload, pos, retries,
                   failures, tree_elements, ops, outcomes, command, settings>>

\* The ProjectInfo objects analyze() can return for the project t with the
\* file contents c (project_analyzer.py lines 24-41).
project_infos(t, c) ==
    LET files == _get_project_files(t)
        language == _detect_language(files)
    IN  {[name |-> project_path_name,
          description |-> _generate_description(project_path_name),
          language |-> language,
          framework |-> _detect_framework(files, language),
          dependencies |-> truncate(order),
          files |-> files,
          structure |-> _analyze_structure(t),
          has_tests |-> _has_tests(files),
          has_docs |-> _has_docs(files),
          has_license |-> _has_license(files),
          has_requirements |-> _has_requirements(files, language)] :
            order \in dedup_orders(collect_dependencies(c, files, language))}

\* What generate_readme returns once the provider has been called: the text
\* the provider generated, the empty text of a response without one, or the
\* template it falls back to.
readme_contents(project_info, readme_type) ==
    {GeneratedText, "", _generate_template_readme(project_info, readme_type)}

\* Analysis, generation and the writing of README.md (lines 86-97 of
\* generate-readme, lines 188-202 of run), and for run the call of
\* deploy_project on the branch the user selects (lines 204-205).
WriteReadme ==
    /\ cpc = "readme"
    /\ IF project_path # "dir" THEN
           \* iterdir() raises in analyze(), and nothing catches it
           /\ cpc' = "crashed"
           /\ UNCHANGED <<tree, info, readme, effects, console, branch, readme_path, dpc>>
       ELSE
           /\ \E project_info \in project_infos(tree, content) :
               /\ info' = project_info
               /\ \E text \in readme_contents(project_info, rtype) :
                   /\ readme' = text
                   /\ tree' = written(tree, "README.md", text)
           /\ effects' = effects \o <<Effect("provider", selected_provider),
                                      Effect("write", "README.md")>>
           /\ console' = Append(console, Notice("readme_generated", "README.md"))
           /\ IF command = "run"
              THEN /\ cpc' = "deploying"
                   /\ dpc' = "deploy"
                   /\ \E b \in {"main", "side"} : branch' = b
                   /\ readme_path' = "README.md"
              ELSE /\ cpc' = "done"
                   /\ UNCHANGED <<branch, readme_path, dpc>>
    /\ UNCHANGED svars
    /\ UNCHANGED <<project_path, content, apc, collected, analysis, rtype,
                   selected_provider, ai_providers, gpc, via, pre, resp, prompt, tvars,
                   fvars, remote, files_to_upload, pos, retries, failures, tree_elements,
                   ops, outcomes, command, settings, gitignore>>

\* The last statement of run (line 206), reached when deploy_project
\* returns; an exception that leaves deploy_project ends the command.
RunFinish ==
    /\ command = "run" /\ cpc = "deploying"
    /\ dpc \in {"returned", "raised"}
    /\ IF dpc = "returned"
       THEN /\ console' = Append(console, Notice("deployed", ""))
            /\ cpc' = "done"
       ELSE /\ cpc' = "crashed"
            /\ UNCHANGED console
    /\ UNCHANGED svars
    /\ UNCHANGED <<avars, gvars, tvars, fvars, remote, branch, readme_path, dpc,
                   files_to_upload, pos, retries, failures, tree_elements, ops, outcomes,
                   command, settings, gitignore, effects>>

run == RunPreamble \/ EnsureGitignore \/ WriteReadme \/ deploy_project \/ RunFinish

generate_readme_command == GenerateReadmePreamble \/ WriteReadme

\* Projects the commands are run on, and the .gitignore of each.
RunProjects ==
    {[tree |-> <<FD(".", "main.py", 4, Text)>>, gitignore |-> None],
     [tree |-> <<FD(".", "logo.png", 5, Image), FD(".", "notes.txt", 4, Latin1)>>,
      gitignore |-> None],
     [tree |-> <<FD(".", ".gitignore", 55, Text), FD(".", "app.js", 4, Text),
                 FD(".", "README.md", 4, Text)>>,
      gitignore |-> "mcp_client.config\n.env\n*.secret\n.venv\nnode_modules\ndist\n"]}

\* What load_config() returns: the providers configured and the GitHub
\* credentials, either of which may be missing.
Settings ==
    {[ai_providers |-> ps, github |-> [token |-> t, username |-> u]] :
        ps \in {{}, {"ollama"}, {"openai", "ollama"}},
        t \in {None, "ghp_token"}, u \in {None, "", "octocat"}}

RunRemotes ==
    {NoRepo, Repo({"main"}, "main", [NoFiles EXCEPT !["main"] = {"README.md"}])}

InitRun ==
    /\ project_path \in {"dir", "file", "missing"}
    /\ \E p \in RunProjects :
        IF project_path = "dir" THEN tree = p.tree /\ gitignore = p.gitignore
        ELSE tree = <<>> /\ gitignore = None
    /\ content = <<>> /\ apc = "idle" /\ collected = <<>> /\ analysis = NoAnalysis
    /\ info = NoAnalysis
    /\ rtype \in {"simple", "advanced", "installation"}
    /\ selected_provider = "openai" /\ ai_providers = {}
    /\ gpc = "idle" /\ via = "none" /\ pre = "none" /\ resp = NoResp
    /\ prompt = None /\ readme = None
    /\ TemplateIdle
    /\ ClassifierIdle
    /\ remote \in RunRemotes
    /\ branch = None /\ readme_path = None /\ dpc = "idle"
    /\ files_to_upload = <<>> /\ pos = 0 /\ retries = 0 /\ failures = 0
    /\ tree_elements = <<>> /\ ops = <<>> /\ console = <<>> /\ outcomes = <<>>
    /\ command \in {"run", "generate-readme"}
    /\ cpc = "start"
    /\ settings \in Settings
    /\ effects = <<>>
    /\ SetupIdle

SpecRun == InitRun /\ [][run \/ generate_readme_command]_vars

(***************************************************************************)
(* neogit/server/server.py: ConfigManager.setup and load_config            *)
(***************************************************************************)
provider_keys == <<"openai", "anthropic", "google", "huggingface", "ollama">>

\* A provider of AIProvidersConfig that is None.
Unset == [set |-> FALSE]

GitHubConfig(username, token) == [username |-> username, token |-> token]

\* AIProvidersConfig(): every provider None.
AIProvidersConfig == [prov \in Range(provider_keys) |-> Unset]

AppConfig(github, alias, aip) == [github |-> github, alias |-> alias, ai_providers |-> aip]

\* What _edit_provider stores for prov (lines 193, 207, 228, 268 and 293).
provider_value(prov, key, model) ==
    IF prov = "google" THEN [set |-> TRUE, api_key |-> key, model |-> model]
    ELSE IF prov = "huggingface"
    THEN [set |-> TRUE, api_key |-> key, models |-> <<model>>, default_model |-> model]
    ELSE IF prov = "ollama" THEN [set |-> TRUE, endpoint |-> key]
    ELSE [set |-> TRUE, api_key |-> key]

\* The data save_config dumps for the configuration c (lines 331-347).
saved(c) ==
    [github |-> [username |-> c.github.username, token |-> c.github.token],
     alias |-> c.alias,
     ai_providers |->
        [prov \in Range(provider_keys) |->
            LET val == c.ai_providers[prov]
            IN  IF ~val.set THEN Unset
                ELSE IF prov = "huggingface"
                THEN [set |-> TRUE, api_key |-> val.api_key, model |-> val.default_model]
                ELSE val]]

\* The AppConfig load_config builds from the data of the file (lines
\* 305-325).
parsed(data) ==
    AppConfig(GitHubConfig(data.github.username, data.github.token), data.alias,
              [prov \in Range(provider_keys) |->
                  LET val == data.ai_providers[prov]
                  IN  IF prov = "huggingface" /\ val.set
                      THEN [set |-> TRUE, api_key |-> val.api_key, models |-> <<val.model>>,
                            default_model |-> val.model]
                      ELSE val])

\* The configuration file: absent, with data that load_config can read, or
\* with data it cannot (no 'github' key).
NoFile == [exists |-> FALSE]

File(data) == [exists |-> TRUE, readable |-> TRUE, data |-> data]

Unreadable == [exists |-> TRUE, readable |-> FALSE]

\* load_config (lines 295-326): the reference it returns or the fact
\* that it raises, and the heap after it.
load_config ==
    IF self_config # 0 THEN [raised |-> FALSE, ref |-> self_config, heap |-> heap]
    ELSE IF ~config_file.exists \/ ~config_file.readable
    THEN [raised |-> TRUE, ref |-> 0, heap |-> heap]
    ELSE [raised |-> FALSE, ref |-> Len(heap) + 1,
          heap |-> Append(heap, parsed(config_file.data))]

\* setup up to its menu (lines 60-66): current is what load_config
\* returns, or a new empty AppConfig when it raises; config is the same
\* object.
SetupStart ==
    /\ spc = "start"
    /\ LET l == load_config
           empty == AppConfig(GitHubConfig("", ""), None, AIProvidersConfig)
       IN  /\ heap' = IF l.raised THEN Append(heap, empty) ELSE l.heap
           /\ current' = IF l.raised THEN Len(heap) + 1 ELSE l.ref
           /\ self_config' = l.ref
    /\ config' = current'
    /\ loaded' = heap'[current']
    /\ spc' = "menu"
    /\ UNCHANGED <<config_file, rc_file, choice, setup_returned, load_returned,
                   avars, gvars, tvars, fvars, dvars, rvars>>

Usernames == {"", "octocat"}

Tokens == {"ghp_token", "ghp_other"}

\* "Edit GitHub Credentials" (lines 81-82) with _edit_github (lines
\* 113-121), which asks again until the credentials are valid or
\* validation is skipped.
EditGithub ==
    /\ spc = "menu"
    /\ choice' = "Edit GitHub Credentials"
    /\ \E username \in Usernames, token \in Tokens :
          heap' = [heap EXCEPT ![config].github = GitHubConfig(username, token)]
    /\ UNCHANGED <<config_file, rc_file, self_config, spc, current, config, loaded,
                   setup_returned, load_returned, avars, gvars, tvars, fvars, dvars, rvars>>

Aliases == {"grmcp", "ng"}

\* "Edit Alias" (lines 83-84) with _edit_alias (lines 123-129) and
\* _create_alias (lines 368-393): the alias goes to the rc file of a bash
\* or zsh, unless it is there.
EditAlias ==
    /\ spc = "menu"
    /\ choice' = "Edit Alias"
    /\ \E create_alias \in BOOLEAN, alias_val \in Aliases, known_shell \in BOOLEAN :
          IF create_alias
          THEN /\ rc_file' = IF known_shell THEN rc_file \cup {alias_val} ELSE rc_file
               /\ heap' = [heap EXCEPT ![config].alias = alias_val]
          ELSE /\ heap' = [heap EXCEPT ![config].alias = None]
               /\ UNCHANGED rc_file
    /\ UNCHANGED <<config_file, self_config, spc, current, config, loaded,
                   setup_returned, load_returned, avars, gvars, tvars, fvars, dvars, rvars>>

\* "Edit AI Providers" (lines 85-86): into the menu of _edit_ai_providers
\* (lines 131-165).
EditAIProviders ==
    /\ spc = "menu"
    /\ choice' = "Edit AI Providers"
    /\ spc' = "providers"
    /\ UNCHANGED <<config_file, rc_file, heap, self_config, current, config, loaded,
                   setup_returned, load_returned, avars, gvars, tvars, fvars, dvars, rvars>>

ApiKeys == {"sk-1"}

ModelNames == {"m-1"}

\* A provider chosen in the providers menu, or "Add Provider" (lines
\* 149-161), with _edit_provider (lines 167-294), which asks again until
\* the value is confirmed and then sets it in the object it was given.
EditProvider ==
    /\ spc = "providers"
    /\ \E prov \in Range(provider_keys), key \in ApiKeys, model \in ModelNames :
          heap' = [heap EXCEPT ![config].ai_providers[prov] = provider_value(prov, key, model)]
    /\ UNCHANGED <<config_file, rc_file, self_config, spc, choice, current, config, loaded,
                   setup_returned, load_returned, avars, gvars, tvars, fvars, dvars, rvars>>

\* "Remove Provider" (lines 161-163): setattr(ai_providers, prov, None).
RemoveProvider ==
    /\ spc = "providers"
    /\ \E prov \in Range(provider_keys) :
          heap' = [heap EXCEPT ![config].ai_providers[prov] = Unset]
    /\ UNCHANGED <<config_file, rc_file, self_config, spc, choice, current, config, loaded,
                   setup_returned, load_returned, avars, gvars, tvars, fvars, dvars, rvars>>

\* "Back to Main Menu" (lines 164-165, 86): the object returned is the one
\* config.ai_providers names already.
BackToMainMenu ==
    /\ spc = "providers"
    /\ spc' = "menu"
    /\ UNCHANGED <<config_file, rc_file, heap, self_config, choice, current, config, loaded,
                   setup_returned, load_returned, avars, gvars, tvars, fvars, dvars, rvars>>

\* "Save & Exit" (lines 87-91) with save_config (lines 328-350).
SaveAndExit ==
    /\ spc = "menu"
    /\ choice' = "Save & Exit"
    /\ config_file' = File(saved(heap[config]))
    /\ self_config' = config
    /\ setup_returned' = config
    /\ spc' = "returned"
    /\ UNCHANGED <<rc_file, heap, current, config, loaded, load_returned,
                   avars, gvars, tvars, fvars, dvars, rvars>>

\* "Cancel/Exit without saving" (lines 92-94): return current.
CancelExit ==
    /\ spc = "menu"
    /\ choice' = "Cancel/Exit without saving"
    /\ setup_returned' = current
    /\ spc' = "returned"
    /\ UNCHANGED <<config_file, rc_file, heap, self_config, current, config, loaded,
                   load_returned, avars, gvars, tvars, fvars, dvars, rvars>>

\* load_config called on the same ConfigManager after setup has returned.
LoadConfig ==
    /\ spc = "returned"
    /\ LET l == load_config
       IN  /\ heap' = l.heap
           /\ self_config' = l.ref
           /\ load_returned' = IF l.raised THEN -1 ELSE l.ref
    /\ spc' = "loaded"
    /\ UNCHANGED <<config_file, rc_file, choice, current, config, loaded, setup_returned,
                   avars, gvars, tvars, fvars, dvars, rvars>>

setup ==
    \/ SetupStart \/ EditGithub \/ EditAlias \/ EditAIProviders \/ EditProvider
    \/ RemoveProvider \/ BackToMainMenu \/ SaveAndExit \/ CancelExit

\* The configurations a file may hold when setup starts.
StoredConfigs ==
    {AppConfig(GitHubConfig("octocat", "ghp_token"), None, AIProvidersConfig),
     AppConfig(GitHubConfig("octocat", "ghp_token"), "grmcp",
               [AIProvidersConfig EXCEPT
                   !["huggingface"] = provider_value("huggingface", "sk-1", "m-1"),
                   !["ollama"] = provider_value("ollama", "sk-1", "m-1")])}

InitSetup ==
    /\ AnalyzerIdle /\ GeneratorIdle /\ TemplateIdle /\ ClassifierIdle /\ DeployIdle
    /\ RunIdle
    /\ config_file \in {NoFile, Unreadable} \cup {File(saved(c)) : c \in StoredConfigs}
    /\ rc_file \in {{}, {"grmcp"}}
    /\ heap = <<>> /\ self_config = 0 /\ spc = "start"
    /\ choice = None /\ current = 0 /\ config = 0 /\ loaded = None
    /\ setup_returned = 0 /\ load_returned = 0

SpecSetup == InitSetup /\ [][setup \/ LoadConfig]_vars
(***************************************************************************)
(* Claims about generate_readme                                            *)
(***************************************************************************)
\* The provider call of this run failed: the pre-flight check did not pass,
\* the generation call raised or answered another status than 200, or its
\* body is not a generation (no choice, no parsable JSON, not the object or
\* list the endpoint documents, or one without the text field).
BodyMalformed ==
    CASE via \in {"openai", "anthropic", "google"} -> resp.body.items = <<>>
      [] via = "huggingface" ->
            ~(\/ /\ resp.body.t = "dict"
                 /\ \E i \in 1..Len(resp.body.d) : resp.body.d[i][1] = "generated_text"
              \/ /\ resp.body.t = "list" /\ resp.body.items # <<>>
                 /\ resp.body.items[1].t = "dict"
                 /\ \E i \in 1..Len(resp.body.items[1].d) :
                        resp.body.items[1].d[i][1] = "generated_text")
      [] via = "ollama" ->
            ~(/\ resp.body.t = "dict"
              /\ \E i \in 1..Len(resp.body.d) : resp.body.d[i][1] = "response")
      [] OTHER -> FALSE

ProviderFailed ==
    /\ gpc = "done"
    /\ via \in Providers
    /\ \/ pre # "ok"
       \/ resp.raises
       \/ resp.status # 200
       \/ BodyMalformed

\* C1: whenever the provider call fails (pre-flight check, exception, status
\* other than 200, malformed body), generate_readme returns exactly the text
\* template generation produces for the same descriptor and document type.
C1_FallbackOnEveryFailure ==
    ProviderFailed => readme = _generate_template_readme(info, rtype)

\* C2: the document generate_readme returns is never empty.
C2_ReadmeNeverEmpty ==
    gpc = "done" => (readme # "" /\ readme # None)

\* The commands the specification's table gives for a language.
TableCommands(lang) ==
    IF lang = "Python" THEN
        [install |-> "pip install -r requirements.txt", run |-> "python main.py",
         test |-> "python -m pytest", dev |-> "pip install -r requirements-dev.txt"]
    ELSE IF lang = "JavaScript/TypeScript" THEN
        [install |-> "npm install", run |-> "npm start",
         test |-> "npm test", dev |-> "npm install --include=dev"]
    ELSE
        [install |-> "# Install dependencies based on your project type",
         run |-> "# Run the application based on your project type",
         test |-> "# Run tests based on your project type",
         dev |-> "# Install dependencies based on your project type"]

Fence == BackTick \o BackTick \o BackTick

\* C10: in every template the install, run, test and dev-install commands
\* are those the table gives for the descriptor's language: the simple
\* template carries the install and the run command, the installation
\* template the install command and the verify command built from the test
\* or the run command, the advanced template all four.
C10_CommandsByLanguage ==
    (gpc = "done" /\ via = "template") =>
        LET c == TableCommands(info.language) IN
        IF rtype = "simple" THEN
            /\ contains(readme, "# Install dependencies\n" \o c.install \o "\n" \o Fence)
            /\ contains(readme, "# Run the project\n" \o c.run \o "\n" \o Fence)
        ELSE IF rtype = "installation" THEN
            /\ contains(readme, Fence \o "bash\n" \o c.install \o "\n" \o Fence)
            /\ contains(readme, Fence \o "bash\n" \o
                    (IF info.has_tests THEN c.test ELSE c.run \o " --version") \o
                    "\n" \o Fence)
        ELSE
            /\ contains(readme, "# Install dependencies\n" \o c.install \o "\n\n")
            /\ contains(readme, "# Run the application\n" \o c.run \o "\n" \o Fence)
            /\ contains(readme, "# Install development dependencies\n" \o c.dev \o "\n\n")
            /\ contains(readme, "# Run tests\n" \o c.test \o "\n" \o Fence)

\* C10 witness: the simple template of a Python descriptor was returned,
\* with its heading and the two pip and python commands.
C10_Witness ==
    /\ gpc = "done" /\ via = "template"
    /\ info.language = "Python" /\ rtype = "simple" /\ ~info.has_tests
    /\ info.framework = None
    /\ contains(readme, "# my-cool-app\n")
    /\ contains(readme, "pip install -r requirements.txt")
    /\ contains(readme, "python main.py")

(***************************************************************************)
(* Claims about analyze                                                    *)
(***************************************************************************)
Scanned == apc # "files"
LanguageKnown == apc \in {"framework", "dependencies", "structure", "done"}
FrameworkKnown == apc \in {"dependencies", "structure", "done"}
DependenciesKnown == apc \in {"structure", "done"}

ExclusionSet == {".git", "node_modules", "__pycache__", "venv", ".DS_Store", ".mypy_cache"}

\* The segments of a relative path, and those that name a directory.
Segments(path) == split(path, "/")
DirSegments(path) == SubSeq(Segments(path), 1, Len(Segments(path)) - 1)
Leaf(path) == Segments(path)[Len(Segments(path))]

\* C3 as stated: no returned path has a segment, directory or leaf, in the
\* exclusion set, and none has a leaf that starts with a dot.
C3_NoExcludedSegment ==
    Scanned =>
        \A i \in 1..Len(analysis.files) :
            /\ Range(Segments(analysis.files[i])) \cap ExclusionSet = {}
            /\ ~startswith(Leaf(analysis.files[i]), ".")

\* C3 amended: no returned path has a directory segment that is in the
\* exclusion set or starts with a dot, and none has a leaf that starts with
\* a dot; a leaf named node_modules, __pycache__ or venv is returned.
C3_NoExcludedDirectory ==
    Scanned =>
        \A i \in 1..Len(analysis.files) :
            /\ \A d \in Range(DirSegments(analysis.files[i])) :
                    d \notin ExclusionSet /\ ~startswith(d, ".")
            /\ ~startswith(Leaf(analysis.files[i]), ".")

\* C3 witness: the project holds a file inside an excluded directory and a
\* file that bears an excluded name; the scan returned the second alone.
C3_Witness ==
    /\ Scanned
    /\ \E i \in 1..Len(tree) : ~tree[i].dir /\ tree[i].parent \in ExclusionSet
    /\ \E i \in 1..Len(tree) :
            ~tree[i].dir /\ tree[i].parent = "." /\ tree[i].name = "node_modules"
    /\ analysis.files = <<"node_modules">>

\* The language categories in their fixed order, with their extensions.
Priority ==
    <<[language |-> "Python", exts |-> {".py"}],
      [language |-> "JavaScript/TypeScript", exts |-> {".js", ".ts"}],
      [language |-> "Java", exts |-> {".java"}],
      [language |-> "C/C++", exts |-> {".cpp", ".c"}],
      [language |-> "Go", exts |-> {".go"}],
      [language |-> "Rust", exts |-> {".rs"}],
      [language |-> "Ruby", exts |-> {".rb"}],
      [language |-> "PHP", exts |-> {".php"}]>>

\* File f carries extension ext: its leaf name ends in ext, in either case,
\* after at least one other character.
Carries(f, ext) ==
    LET n == Len(f)
        k == Len(ext)
    IN  /\ n > k
        /\ lower(SubSeq(f, n - k + 1, n)) = ext
        /\ Char(f, n - k) # "/"

\* The categories of which some file of the list carries an extension.
Present(fs) ==
    {k \in 1..Len(Priority) :
        \E i \in 1..Len(fs) : \E ext \in Priority[k].exts : Carries(fs[i], ext)}

\* C4: when the file list carries a recognised extension, the language is
\* the first category of the fixed order that has a file, however many
\* files the other categories have.
C4_FirstCategoryWins ==
    LanguageKnown =>
        LET present == Present(analysis.files)
        IN  \A k \in present :
                (\A j \in present : k <= j) => analysis.language = Priority[k].language

\* C4 witness: two .js files and one .py file, detected as Python.
C4_Witness ==
    /\ LanguageKnown
    /\ Cardinality({i \in 1..Len(analysis.files) : Carries(analysis.files[i], ".js")}) = 2
    /\ Cardinality({i \in 1..Len(analysis.files) : Carries(analysis.files[i], ".py")}) = 1
    /\ analysis.language = "Python"

\* C5: the dependency list has at most 10 entries and no entry twice.
C5_AtMostTenDistinct ==
    DependenciesKnown =>
        /\ Len(analysis.dependencies) <= 10
        /\ \A i, j \in 1..Len(analysis.dependencies) :
                analysis.dependencies[i] = analysis.dependencies[j] => i = j

\* C5 witness: the manifests declare more than 10 packages, one of them
\* twice, and 10 are returned.
C5_Witness ==
    /\ DependenciesKnown
    /\ Cardinality(Range(collected)) > 10
    /\ Len(collected) > Cardinality(Range(collected))
    /\ Len(analysis.dependencies) = 10

\* The project has a package.json at its root that parses and declares both
\* fields, with at most 10 names in total.
RootPackage == read(content, "package.json")
DeclaresBoth ==
    /\ \E i \in 1..Len(tree) :
            ~tree[i].dir /\ tree[i].parent = "." /\ tree[i].name = "package.json"
    /\ ~RootPackage.error /\ ~RootPackage.json_error
    /\ RootPackage.has_deps /\ RootPackage.has_dev
    /\ Cardinality(Range(RootPackage.deps) \cup Range(RootPackage.dev)) <= 10

\* C6 as stated: every such project gets every key of both fields as its
\* dependencies, and Node.js or React as its framework.
C6_PackageKeysAlways ==
    (apc = "done" /\ DeclaresBoth) =>
        /\ Range(RootPackage.deps) \cup Range(RootPackage.dev)
                \subseteq Range(analysis.dependencies)
        /\ analysis.framework \in {"Node.js", "React"}

\* C6 amended: every such project whose detected language is
\* JavaScript/TypeScript gets every key of both fields as its dependencies,
\* and Node.js as its framework (package.json is matched before react); with
\* any other detected language the framework is neither Node.js nor React,
\* and the dependencies are empty unless the language is Python.
C6_PackageKeysOfJsProject ==
    (apc = "done" /\ DeclaresBoth) =>
        IF analysis.language = "JavaScript/TypeScript" THEN
            /\ Range(RootPackage.deps) \cup Range(RootPackage.dev)
                    \subseteq Range(analysis.dependencies)
            /\ analysis.framework = "Node.js"
        ELSE
            /\ analysis.framework \notin {"Node.js", "React"}
            /\ analysis.language # "Python" => analysis.dependencies = <<>>

\* C6 witness: dependencies {react} and devDependencies {eslint} of a
\* JavaScript project, both returned.
C6_Witness ==
    /\ apc = "done" /\ DeclaresBoth
    /\ analysis.language = "JavaScript/TypeScript"
    /\ RootPackage.deps = <<"react">> /\ RootPackage.dev = <<"eslint">>
    /\ Range(analysis.dependencies) = {"react", "eslint"}
    /\ analysis.framework = "Node.js"

\* The first of the substrings pats, in order, that some path contains in
\* either case; 0 without one.
FirstMatch(fs, pats) ==
    LET hits == {k \in 1..Len(pats) : any_lower(fs, pats[k])}
    IN  IF hits = {} THEN 0 ELSE CHOOSE k \in hits : \A j \in hits : k <= j

\* C7: the framework is the first case-insensitive match of django, flask,
\* fastapi, requirements.txt for Python and of package.json, react, vue,
\* angular for JavaScript/TypeScript, and absent otherwise.
C7_FrameworkCaseInsensitive ==
    FrameworkKnown =>
        analysis.framework =
            IF analysis.language = "Python" THEN
                LET k == FirstMatch(analysis.files,
                                    <<"django", "flask", "fastapi", "requirements.txt">>)
                IN  IF k = 0 THEN None ELSE <<"Django", "Flask", "FastAPI", "Python">>[k]
            ELSE IF analysis.language = "JavaScript/TypeScript" THEN
                LET k == FirstMatch(analysis.files,
                                    <<"package.json", "react", "vue", "angular">>)
                IN  IF k = 0 THEN None ELSE <<"Node.js", "React", "Vue.js", "Angular">>[k]
            ELSE None

\* The part of line before the first occurrence of any of ==, >= and <=.
BeforeFirstOperator(line) ==
    LET at == {find(line, op) : op \in {"==", ">=", "<="}} \ {0}
    IN  IF at = {} THEN line
        ELSE SubSeq(line, 1, (CHOOSE k \in at : \A j \in at : k <= j) - 1)

\* The lines of a manifest that are neither blank nor a comment, stripped.
RECURSIVE Declarations(_)
Declarations(lines) ==
    IF lines = <<>> THEN <<>>
    ELSE (IF strip(Head(lines)) = "" \/ startswith(strip(Head(lines)), "#")
          THEN <<>> ELSE <<strip(Head(lines))>>) \o Declarations(Tail(lines))

\* The manifests of the project, in the order of the file list.
Manifests ==
    LET IsManifest(f) == contains(lower(f), "requirements") \/ endswith(f, ".txt")
    IN  SelectSeq(analysis.files, IsManifest)

AllDeclarations ==
    Flatten([i \in 1..Len(Manifests) |-> Declarations(read(content, Manifests[i]).lines)])

\* C8 as stated: a Python project collects, for every line that is neither
\* blank nor a comment, the part before its first ==, >= or <=, and nothing
\* else.
C8_BeforeFirstOperator ==
    (DependenciesKnown /\ analysis.language = "Python") =>
        LET lines == AllDeclarations
        IN  collected = [i \in 1..Len(lines) |-> BeforeFirstOperator(lines[i])]

\* An == that starts inside a >= or <=.
Overlapping(line) == contains(line, ">==") \/ contains(line, "<==")

\* The part of s before the first occurrence of op, all of s without one.
CutBefore(s, op) ==
    IF find(s, op) = 0 THEN s ELSE SubSeq(s, 1, find(s, op) - 1)

\* C8 amended: every line that is neither blank nor a comment contributes
\* one name, the stripped line cut before its first ==, then before the
\* first >= left, then before the first <= left; that is the part before the
\* first occurrence of any of the three for every line in which no == starts
\* inside a >= or <= (no >== and no <==).
C8_BeforeFirstOperatorNoOverlap ==
    (DependenciesKnown /\ analysis.language = "Python") =>
        LET lines == AllDeclarations
        IN  /\ Len(collected) = Len(lines)
            /\ \A i \in 1..Len(lines) :
                    /\ collected[i] =
                            CutBefore(CutBefore(CutBefore(lines[i], "=="), ">="), "<=")
                    /\ ~Overlapping(lines[i]) =>
                            collected[i] = BeforeFirstOperator(lines[i])

\* C8 witness: a comment and a line with two specifiers; one name collected.
C8_Witness ==
    /\ DependenciesKnown /\ analysis.language = "Python"
    /\ read(content, "requirements.txt").lines = <<"# pinned", "django>=3.2,<4">>
    /\ collected = <<"django">>

RootItems == LET InRoot(e) == e.parent = "." IN SelectSeq(tree, InRoot)

MatchesConfig(e) ==
    ~e.dir /\ \E p \in {".json", ".yaml", ".yml", ".toml", ".ini"} : contains(lower(e.name), p)
MatchesBuild(e) ==
    ~e.dir /\ \E p \in {".lock", ".spec", "build"} : contains(lower(e.name), p)
MatchesSrc(e) == e.dir /\ e.name \in {"src", "app", "lib", "source"}
MatchesTest(e) == e.dir /\ contains(lower(e.name), "test")

\* C9 as stated: every category a child of the root matches lists it.
C9_MatchesIndependent ==
    apc = "done" =>
        \A i \in 1..Len(RootItems) :
            LET e == RootItems[i] IN
            /\ MatchesConfig(e) => e.name \in Range(analysis.structure.config_files)
            /\ MatchesBuild(e) => e.name \in Range(analysis.structure.build_files)
            /\ MatchesSrc(e) => e.name \in Range(analysis.structure.src_dirs)
            /\ MatchesTest(e) => e.name \in Range(analysis.structure.test_dirs)

(***************************************************************************)
(* Claims about the document type                                          *)
(***************************************************************************)
KnownTypes == {"simple", "advanced", "installation"}

\* C11: a document type other than simple, advanced and installation is
\* treated as advanced: template generation returns the advanced template,
\* whether called directly or as a fallback, and the prompt sent to a
\* provider is the one of type advanced.
C11_UnknownTypeIsAdvanced ==
    (gpc = "done" /\ rtype \notin KnownTypes) =>
        /\ _generate_template_readme(info, rtype) = _advanced_template(info)
        /\ (via = "template" \/ pre # "ok" \/ resp.raises) =>
                readme = _advanced_template(info)
        /\ prompt # None => prompt = _create_ai_prompt(info, "advanced")

\* C11 witness: type minimal, the provider call raised after the prompt was
\* built; the advanced template came back.
C11_Witness ==
    /\ gpc = "done" /\ rtype = "minimal"
    /\ via \in Providers /\ pre = "ok" /\ resp.raises
    /\ prompt = _create_ai_prompt(info, "advanced")
    /\ readme = _advanced_template(info)
    /\ readme # _simple_template(info)

StatedAllowSet == {9, 10, 12, 13, 27} \cup ((32..255) \ {127})

BinaryCall == fpc = "done" /\ fn = "is_binary"

\* C13 as stated: is_binary is true exactly for a buffer with a byte outside
\* the stated allow-set.
C13_OutsideStatedAllowSet ==
    BinaryCall =>
        (~verdict.raises /\ verdict.value = (\E i \in 1..Len(arg) : arg[i] \notin StatedAllowSet))

\* C13 amended: is_binary is true exactly for a buffer with a byte outside
\* the stated allow-set extended by bell 0x07 and backspace 0x08; it is
\* false for an empty and for an all-printable-ASCII buffer and true for a
\* buffer that holds the byte 0.
C13_OutsideAllowSetWithBellAndBackspace ==
    BinaryCall =>
        /\ ~verdict.raises
        /\ verdict.value = (\E i \in 1..Len(arg) : arg[i] \notin StatedAllowSet \cup {7, 8})
        /\ (\A i \in 1..Len(arg) : arg[i] \in 32..126) => ~verdict.value
        /\ (\E i \in 1..Len(arg) : arg[i] = 0) => verdict.value

\* C13 witness: a letter and a bell, classified as text.
C13_Witness == BinaryCall /\ arg = <<65, 7>> /\ ~verdict.value

\* C14: should_exclude is true exactly for a path with a segment in the
\* exclusion set or a leaf that starts with a dot; a segment that merely
\* contains an exclusion name does not exclude.
C14_ExcludeBySegment ==
    (fpc = "done" /\ fn = "should_exclude") =>
        (~verdict.raises /\
         verdict.value = (\/ Range(Segments(arg)) \cap ExclusionSet # {}
                          \/ startswith(Leaf(arg), ".")))

(***************************************************************************)
(* Claims about a project path that is no directory                        *)
(***************************************************************************)
\* C19: at a root that does not exist or is no directory the scan fails
\* instead of returning a file list: analyze never gets to language
\* detection.
C19_ScanFailsWithoutDirectory ==
    project_path # "dir" => (apc \in {"files", "raised"} /\ analysis.language = None)

(***************************************************************************)
(* Claims about GitHubManager.deploy_project                               *)
(***************************************************************************)
\* The files the deployment walk does not pass over by name.
Candidates == Range(visited(tree, "."))

RelPath(e) == upload_pair(e, readme_path).rel_path

Printed(kind) == \E i \in 1..Len(console) : console[i].kind = kind

\* _upload_files has run to its end, no call failed and no file raised an
\* error.
RanClean == dpc = "returned" /\ failures = 0 /\ ~Printed("error")

\* C15, its last part: a file over 5 MiB does not prevent any other file
\* from being uploaded. When the project has a README.md among the files
\* the walk takes and the deployment ran to its end without any error,
\* every file the walk takes that is not over 5 MiB is on the branch.
C15_LargeFileStopsNoOther ==
    (RanClean /\ \E e \in Candidates : lower(RelPath(e)) = "readme.md") =>
        \A e \in Candidates : ~too_large(e) => RelPath(e) \in remote.files[branch]

\* The user has answered "a" to an upload failure.
Aborted == \E i \in 1..Len(outcomes) : outcomes[i].result = "aborted"

\* C16: from the user's answer "a" on, no file is read, probed, created,
\* updated or staged, and the tree and commit of the staged blobs are not
\* made: the log of reads and host calls, the staged blobs and the
\* repository stay as they are.
C16_AbortHaltsUpload ==
    [][Aborted => (ops' = ops /\ tree_elements' = tree_elements /\ remote' = remote
                   /\ outcomes' = outcomes)]_vars

\* C16 witness: the user aborted at a file that cannot be decoded, with a
\* blob staged before it and a file still to come after it; no tree was
\* made.
C16_Witness ==
    /\ Aborted /\ dpc = "returned"
    /\ tree_elements # <<>>
    /\ pos < Len(files_to_upload)
    /\ \A i \in 1..Len(ops) : ops[i].op # "create_git_tree"

(***************************************************************************)
(* Claims about the commands run and generate-readme                       *)
(***************************************************************************)
\* C17: run prints 'Project deployed to GitHub!' after provider fallbacks
\* and skipped files, and does not print it when the repository could not
\* be got or created or when the user aborted the upload.
C17_NoSuccessAfterAbort ==
    Printed("deployed") => (~Printed("aborted") /\ ~Printed("failed_repo"))

CredentialsMissing ==
    ~Truthy(settings.github.token) \/ ~Truthy(settings.github.username)

\* The command is past its tests of the configuration and the path.
Tested == command # None /\ cpc # "start"

\* The command reported a problem and stopped with nothing written and no
\* service called.
StoppedClean ==
    /\ cpc = "stopped"
    /\ Printed("no_providers") \/ Printed("no_credentials") \/ Printed("no_path")
    /\ effects = <<>> /\ ops = <<>>
    /\ \/ project_path # "dir" /\ tree = <<>> /\ gitignore = None
       \/ [tree |-> tree, gitignore |-> gitignore] \in RunProjects

\* C18 as stated: with a missing project path or missing GitHub
\* credentials, run and generate-readme report the problem and stop with
\* nothing written and no service called.
C18_StopsWithoutSideEffects ==
    (Tested /\ (project_path = "missing" \/ CredentialsMissing)) => StoppedClean

\* C18 amended: that holds of run for a missing path and for missing
\* credentials, and of generate-readme for a missing path; generate-readme
\* does not look at the GitHub credentials, and without them, on a project
\* directory with a provider configured, it calls the provider and writes
\* README.md.
C18_StopsWhereTheCommandTests ==
    /\ (Tested /\ (project_path = "missing" \/ (command = "run" /\ CredentialsMissing)))
          => StoppedClean
    /\ (Tested /\ command = "generate-readme" /\ project_path = "dir"
           /\ available_providers(settings) # <<>>)
          => /\ cpc \in {"readme", "done"}
             /\ cpc = "done" => effects = <<Effect("provider", selected_provider),
                                             Effect("write", "README.md")>>

\* C18 witness: run, with a provider configured and a project directory
\* but no GitHub token, reported the credentials and stopped clean.
C18_Witness ==
    /\ command = "run" /\ StoppedClean /\ Printed("no_credentials")
    /\ project_path = "dir" /\ settings.github.token = None
    /\ available_providers(settings) # <<>>

\* C20: when run deploys a project, the .gitignore it generated at the
\* project root is among what is sent to the repository.
C20_GitignorePushed ==
    (Printed("deployed") /\ RanClean /\ Printed("gitignore_written")) =>
        (\E i \in 1..Len(ops) : ops[i].path = ".gitignore")
        \/ ".gitignore" \in remote.files[branch]

(***************************************************************************)
(* Claims about the order of what _upload_files does                       *)
(***************************************************************************)
HostWrites ==
    {"create_file", "update_file", "create_git_blob", "create_git_ref", "create_git_tree",
     "create_git_commit", "ref_edit"}

IsWrite(o) == o.op \in HostWrites

\* The position in ops of the first write to the repository, 0 without one.
FirstWrite ==
    IF \E i \in 1..Len(ops) : IsWrite(ops[i])
    THEN CHOOSE i \in 1..Len(ops) : IsWrite(ops[i]) /\ \A j \in 1..(i - 1) : ~IsWrite(ops[j])
    ELSE 0

\* The repository was empty and has got its first commit.
Initialized == Printed("initialized")

\* C21 as stated: on an empty repository the first write is the creation
\* of README.md, every other write comes after it, and README.md is not
\* written a second time.
C21_ReadmeFirstAndOnce ==
    Initialized =>
        LET k == FirstWrite
        IN  /\ ops[k] = Op("create_file", "README.md", TRUE)
            /\ \A j \in (k + 1)..Len(ops) : IsWrite(ops[j]) => ops[j].path # "README.md"

\* C21 amended: while the repository has no branch nothing is written to
\* it but the attempt to create the README; the first write is the
\* creation of the first file of the upload list named README.md in any
\* letter case, read just before; that file is not read again, and its
\* path is written again only when the list holds a second file of the
\* same upload path.
C21_FirstReadmeOfListFirst ==
    LET pairs == gathered(tree, readme_path)
    IN  /\ remote.branches = {} =>
              \A i \in 1..Len(ops) : IsWrite(ops[i]) =>
                  (ops[i].op = "create_file" /\ ~ops[i].ok
                   /\ lower(ops[i].path) = "readme.md")
        /\ Initialized =>
              LET k == FirstWrite
                  first == readme_tuple(pairs)[1]
              IN  /\ ops[k] = Op("create_file", first.rel_path, TRUE)
                  /\ lower(first.rel_path) = "readme.md"
                  /\ ops[k - 1] = Op("read", first.file_path, TRUE)
                  /\ first \notin Range(files_to_upload)
                  /\ \A j \in (k + 1)..Len(ops) :
                        /\ ops[j] # Op("read", first.file_path, TRUE)
                        /\ (IsWrite(ops[j]) /\ ops[j].path = first.rel_path) =>
                              \E p \in Range(files_to_upload) : p.rel_path = first.rel_path

\* C21 witness: an empty repository got readme.md as its first commit, and
\* a second file was created after it.
C21_Witness ==
    /\ Initialized /\ dpc = "returned"
    /\ ops[FirstWrite].path = "readme.md"
    /\ \E j \in (FirstWrite + 1)..Len(ops) : ops[j].op = "create_file" /\ ops[j].ok

\* The step of the branch set-up that creates the missing target branch of
\* a repository that has commits.
CreatesBranch ==
    /\ dpc = "branch" /\ dpc' = "loop"
    /\ remote.branches # {} /\ branch \notin remote.branches

\* The new branch is on the host, made from the branch src with the call
\* that ends the log, and nothing was written before.
CreatedFrom(src) ==
    /\ remote'.branches = remote.branches \cup {branch}
    /\ remote'.files[branch] = remote.files[src]
    /\ ops'[Len(ops')] = Op("create_git_ref", src, TRUE)
    /\ \A i \in 1..Len(ops) : ~IsWrite(ops[i])
    /\ tree_elements = <<>> /\ outcomes = <<>>

\* C22 as stated: a missing target branch of a non-empty repository is
\* created from the tip of the default branch, before any file is uploaded.
C22_CreatedFromDefaultBranch ==
    [][CreatesBranch => CreatedFrom(remote.default_branch)]_vars

\* C22 amended: a missing target branch of a non-empty repository is
\* created from the tip of main when the repository has a branch main, and
\* from the tip of the default branch otherwise; before that nothing is
\* written, and no file is written while the target branch is missing.
C22_CreatedFromMainElseDefault ==
    /\ [][CreatesBranch =>
            CreatedFrom(IF "main" \in remote.branches THEN "main"
                        ELSE remote.default_branch)]_vars
    /\ [](remote.exists /\ remote.branches # {} /\ branch \notin remote.branches =>
            \A i \in 1..Len(ops) : IsWrite(ops[i]) => ~ops[i].ok)

\* C22 witness: branch side was made from main in a repository whose
\* default branch is dev, and a file was written to it afterwards.
C22_Witness ==
    /\ branch = "side" /\ remote.exists /\ remote.default_branch = "dev"
    /\ \E i \in 1..Len(ops) :
          /\ ops[i] = Op("create_git_ref", "main", TRUE)
          /\ \E j \in (i + 1)..Len(ops) :
                ops[j].op \in {"create_file", "update_file"} /\ ops[j].ok

\* The positions in ops of the calls named op.
CallsOf(op) == {i \in 1..Len(ops) : ops[i].op = op}

\* What the upload loop does for a file: it reads it and sends it.
FileCalls == {"read", "get_contents", "create_file", "update_file", "create_git_blob"}

\* The paths the loop staged as blobs, in its order.
StagedPaths ==
    LET IsStaged(o) == o.result = "staged"
        staged == SelectSeq(outcomes, IsStaged)
    IN  [i \in 1..Len(staged) |-> staged[i].path]

\* C23: a deployment makes at most one tree, one commit and one ref update
\* for its blobs, whatever their number; these calls come after the loop
\* has ended the handling of every file of the upload list, no file is read
\* or sent after them, the blobs put in the tree are the files the loop
\* staged, and a commit that went through holds all of them.
C23_OneCommitAfterTheLoop ==
    LET after == CallsOf("create_git_tree") \cup CallsOf("create_git_commit")
                    \cup CallsOf("ref_edit")
    IN  /\ Cardinality(CallsOf("create_git_tree")) <= 1
        /\ Cardinality(CallsOf("create_git_commit")) <= 1
        /\ Cardinality(CallsOf("ref_edit")) <= 1
        /\ tree_elements = StagedPaths
        /\ Len(tree_elements) = Cardinality({i \in CallsOf("create_git_blob") : ops[i].ok})
        /\ after # {} =>
              /\ dpc = "returned"
              /\ tree_elements # <<>>
              /\ Len(outcomes) = Len(files_to_upload)
              /\ \A k \in 1..Len(outcomes) :
                    /\ outcomes[k].path = files_to_upload[k].rel_path
                    /\ outcomes[k].result \in {"uploaded", "staged", "skipped"}
              /\ \A i \in after : \A j \in (i + 1)..Len(ops) : ops[j].op \notin FileCalls
        /\ Printed("committed") => Range(tree_elements) \subseteq remote.files[branch]

\* C23 witness: two blobs were staged before a text file was sent, and one
\* commit took both.
C23_Witness ==
    /\ Printed("committed") /\ Len(tree_elements) = 2
    /\ Cardinality(CallsOf("create_git_commit")) = 1
    /\ \E k \in 1..Len(outcomes) : outcomes[k].result = "uploaded"

\* C24: in the upload loop the probe get_contents comes before any write
\* of a text file; update_file is called only right after a probe that
\* found the path, and create_file only right after a probe that did not
\* find it, so never for a path the probe found. (The create_file that
\* follows a read is the first commit of an empty repository.)
C24_ProbeDecidesTheWrite ==
    \A i \in 1..Len(ops) :
        /\ ops[i].op = "update_file" =>
              i > 1 /\ ops[i - 1] = Op("get_contents", ops[i].path, TRUE)
        /\ ops[i].op = "create_file" =>
              /\ i > 1
              /\ \/ ops[i - 1].op = "read"
                 \/ ops[i - 1] = Op("get_contents", ops[i].path, FALSE)

\* The upload loop was entered and the user has not answered "a".
LoopNotAborted == dpc \in {"loop", "returned"} /\ ops # <<>> /\ pos >= 1 /\ ~Printed("aborted")
                    /\ ~Printed("cannot_init") /\ ~Printed("failed_repo")

\* The file at position k of the upload list was opened by the loop.
Attempted(k) ==
    \E i \in 1..Len(ops) : ops[i].op = "read" /\ ops[i].path = files_to_upload[k].file_path

\* C25: unless the user aborts, the loop attempts every file of the upload
\* list, whatever failed or was skipped before: each file the loop has
\* passed has been opened and has its outcome, a returned upload has passed
\* all of them, and a skip moves to the next file and leaves the loop
\* running.
C25_EveryFileAttempted ==
    /\ [](LoopNotAborted =>
            /\ Len(outcomes) = pos - 1
            /\ \A k \in 1..(pos - 1) :
                  Attempted(k) /\ outcomes[k].path = files_to_upload[k].rel_path
            /\ dpc = "returned" => pos = Len(files_to_upload) + 1)
    /\ [][(dpc = "loop" /\ Len(outcomes') = Len(outcomes) + 1
            /\ outcomes'[Len(outcomes')].result = "skipped") =>
              (pos' = pos + 1 /\ dpc' = "loop")]_vars

\* C25 witness: the first file of three was skipped, a later one failed
\* and was skipped too, and the last was still uploaded.
C25_Witness ==
    /\ dpc = "returned" /\ ~Printed("aborted") /\ Len(files_to_upload) >= 3
    /\ Len(outcomes) = Len(files_to_upload)
    /\ outcomes[1].result = "skipped"
    /\ outcomes[Len(outcomes)].result = "uploaded"

\* The outcomes of _upload_files at its return: the files of the upload
\* list up to one the user aborted at have one outcome each, the ones after
\* it have none, the files uploaded are on the branch, and the files staged
\* are the blobs of the tree.
OneOutcomeEach ==
    LET n == Len(outcomes)
    IN  /\ n <= Len(files_to_upload)
        /\ \A k \in 1..n :
              /\ outcomes[k].path = files_to_upload[k].rel_path
              /\ outcomes[k].result \in {"uploaded", "staged", "skipped", "aborted"}
              /\ outcomes[k].result = "aborted" => k = n
              /\ outcomes[k].result = "uploaded" => outcomes[k].path \in remote.files[branch]
        /\ n < Len(files_to_upload) => (n >= 1 /\ outcomes[n].result = "aborted")
        /\ tree_elements = StagedPaths

\* C26: with the answer "r" given finitely often for each file, the upload
\* loop is left and _upload_files returns; at its return every file of the
\* upload list has exactly one outcome: uploaded, staged, skipped, or left
\* because of an abort.
C26_UploadLoopReturns ==
    /\ (dpc = "loop") ~> (dpc = "returned")
    /\ []((dpc = "returned" /\ pos >= 1) => OneOutcomeEach)

\* C26 witness: _upload_files returned after a retry, with a file uploaded,
\* a file staged and a file skipped.
C26_Witness ==
    /\ dpc = "returned" /\ pos = Len(files_to_upload) + 1
    /\ \E i \in 1..Len(console) : console[i].kind = "error"
    /\ \A r \in {"uploaded", "staged", "skipped"} :
          \E k \in 1..Len(outcomes) : outcomes[k].result = r
    /\ \E i \in 1..(Len(ops) - 1) : \E j \in (i + 1)..Len(ops) :
          ops[i] = ops[j] /\ ops[i].op = "read"

C28_NoRepositoryNoUpload ==
    (\E i \in 1..Len(ops) : ops[i].op = "create_repo" /\ ~ops[i].ok) =>
        LET name == repo_name(info.name)
        IN  /\ dpc = "returned"
            /\ ops = <<Op("get_repo", name, FALSE), Op("create_repo", name, FALSE)>>
            /\ console = <<Notice("create_error", name), Notice("failed_repo", name)>>
            /\ files_to_upload = <<>> /\ tree_elements = <<>> /\ outcomes = <<>>
            /\ remote \in Remotes

\* C28 witness: the repository of a project with files to upload could not
\* be fetched or created, and deploy_project has returned.
C28_Witness ==
    /\ Printed("failed_repo") /\ dpc = "returned"
    /\ gathered(tree, readme_path) # <<>>
    /\ ~remote.exists

\* The branch set-up finds the repository empty and no file of the upload
\* list named README.md in any letter case.
EmptyWithoutReadme ==
    /\ dpc = "branch" /\ remote.branches = {}
    /\ \A i \in 1..Len(files_to_upload) : lower(files_to_upload[i].rel_path) # "readme.md"

\* C29: on an empty repository, with no file named README.md in any letter
\* case in the upload list, _upload_files reports that it cannot initialize
\* the repository and returns: the failed look-up of the branch is its one
\* call, and nothing is written to the repository.
C29_NoReadmeNoInitialization ==
    /\ [][EmptyWithoutReadme =>
            /\ dpc' = "returned"
            /\ console' = Append(console, Notice("cannot_init", "README.md"))
            /\ ops' = Append(ops, Op("get_git_ref", branch, FALSE))
            /\ remote' = remote /\ tree_elements' = <<>> /\ outcomes' = <<>>]_vars
    /\ [](Printed("cannot_init") =>
            /\ dpc = "returned" /\ remote.branches = {}
            /\ \A i \in 1..Len(ops) : ~IsWrite(ops[i]) /\ ops[i].op # "read")

\* C29 witness: an empty repository and a project with main.py and a
\* README.md too large to upload: _upload_files has returned with its
\* report.
C29_Witness ==
    /\ Printed("cannot_init") /\ dpc = "returned"
    /\ files_to_upload # <<>>

(***************************************************************************)
(* Claims about the configuration menu                                     *)
(***************************************************************************)
\* setup had loaded the configuration of the file, and has returned by
\* "Cancel/Exit without saving".
Cancelled ==
    /\ spc \in {"returned", "loaded"} /\ choice = "Cancel/Exit without saving"
    /\ self_config # 0 /\ current = self_config

\* C30: after any edits and "Cancel/Exit without saving", setup returns a
\* configuration equal to the one loaded before the edits, and so does a
\* later load_config on the same ConfigManager.
C30_CancelDiscardsEdits ==
    Cancelled =>
        /\ heap[setup_returned] = loaded
        /\ (spc = "loaded" /\ load_returned > 0) => heap[load_returned] = loaded

====
